---- MODULE Spec2Model ----
(***************************************************************************)
(* Model of the fin_sight_server article pipeline: ingestion               *)
(* (services.create_article), the enrichment loop of                       *)
(* scripts/pipeline.py, the statistics window of                           *)
(* services.get_contextual_statistics_for_article and the read API of      *)
(* app/api/articles.py.                                                    *)
(*                                                                         *)
(* Text values are kept modulo their inner characters: a body is the       *)
(* triple (leading blanks, length of the stripped core, trailing blanks);  *)
(* a title or url is a name plus a flag telling whether blanks surround    *)
(* it.  str.strip() and len() are computed on that representation.         *)
(***************************************************************************)
EXTENDS Integers, Sequences, FiniteSets, TLC

VARIABLES
    articles,    \* table articles: sequence of rows, row i has primary key i
    contents,    \* table article_contents: sequence of rows
    enriched,    \* table enriched_articles: sequence of rows
    indicators,  \* table statistics.indicators: set of rows
    call,        \* the last service call with its arguments and its outcome
    called,      \* raw urls that a direct create_article call has carried
    inserted,    \* raw urls for which a create_article call returned an Article
    pc,          \* per pipeline instance: position in run_article_processing_pipeline
    candidates,  \* per instance: search results not yet handled in stage 1
    pending,     \* per instance: pending_articles, the list selected at stage 2
    idx,         \* per instance: index of the loop variable `article` in pending
    analysis,    \* per instance: local analysis_result
    stats,       \* per instance: local final_stats_data
    exc,         \* per instance: exception in flight at the article boundary
    outcome,     \* per instance, per article: how this run's attempt went
    attempts,    \* per instance, per article: attempts made by this run (capped at 2)
    window,      \* last [end, frequency, start] computed by the statistics lookup
    creating,    \* per instance: a create_article call between its query and its commit
    resp         \* last response of the read API

vars == <<articles, contents, enriched, indicators, call, called, inserted, pc,
          candidates, pending, idx, analysis, stats, exc, outcome, attempts,
          window, creating, resp>>

storeVars == <<articles, contents, enriched>>
runVars == <<pc, candidates, pending, idx, analysis, stats, exc, outcome, attempts>>

(***************************************************************************)
(* Bounds of the model and constants of the program                        *)
(***************************************************************************)
MaxArticles == 3
MaxCandidates == 2
MinContentLen == 50
MinCrawlLen == 200

NoValue == "None"

(***************************************************************************)
(* Text and dates                                                          *)
(***************************************************************************)
Body(lead, core, trail) == [lead |-> lead, core |-> core, trail |-> trail]

\* len(s)
BodyLen(b) == b.lead + b.core + b.trail

\* s.strip(): the blanks around the core go; a body of blanks only becomes ""
BodyStrip(b) == Body(0, b.core, 0)

\* `not s` for a str
BodyEmpty(b) == BodyLen(b) = 0

Text(name, padded) == [name |-> name, padded |-> padded]

\* `not s` for a title or url: only the empty string is falsy
TextEmpty(t) == t.name = "" /\ ~t.padded

\* s.strip()
TextStrip(t) == Text(t.name, FALSE)

\* dateutil.parser.parse(published_at): a date, or ValueError on junk
BadDate == <<0, 0, 0>>
ParseAnything(published_at) == TRUE
ParseOk(published_at) == published_at # BadDate

\* BeautifulSoup(description, "html.parser").get_text(strip=True)
GetText(description) == [text |-> description.text, html |-> FALSE]

(***************************************************************************)
(* Store queries                                                           *)
(***************************************************************************)
ArticleIds == 1..Len(articles)

\* db.query(Article).filter(Article.url == url).first(): compares the raw argument
FindByUrl(arts, url) == {i \in 1..Len(arts) : arts[i].url = url}

\* unique=True on articles.url, enforced when the INSERT is flushed
UniqueUrlNone(arts, storedUrl) == TRUE
UniqueUrlOk(arts, storedUrl) == \A i \in 1..Len(arts) : arts[i].url # storedUrl

CountUrl(arts, storedUrl) == Cardinality({i \in 1..Len(arts) : arts[i].url = storedUrl})

EnrichedOf(rows, a) == {k \in 1..Len(rows) : rows[k].article_id = a}
ContentOf(rows, a) == {k \in 1..Len(rows) : rows[k].article_id = a}

(***************************************************************************)
(* services.create_article                                                 *)
(***************************************************************************)
\* the content floor of line 35, on the stripped body
TooShortRaw(content) == BodyLen(content) < MinContentLen
TooShort(content) == BodyLen(BodyStrip(content)) < MinContentLen

NewArticle(id, title, url, description, published_at) ==
    [id |-> id, title |-> TextStrip(title), url |-> TextStrip(url),
     description |-> GetText(description), published_at |-> published_at,
     category |-> NoValue, status |-> "PENDING"]

NewContentElsewhere(id, content, images) ==
    [article_id |-> id + 1, content |-> BodyStrip(content), images |-> <<>>]
NewContent(id, content, images) ==
    [article_id |-> id, content |-> BodyStrip(content),
     images |-> IF images.given /\ images.urls # <<>> THEN images.urls ELSE <<>>]

\* The outcome of one call on the committed store; db tells whether the
\* query and the commit of this call go through (SQLAlchemyError otherwise).
DbOutcomes == {"ok", "query_fails", "commit_fails"}

\* line 33-46: what the call does before it builds the rows, on the store the
\* dedupe query sees; "commit" when it goes on to insert
BeforeCommit(arts, title, url, published_at, content, db) ==
    IF TextEmpty(title) \/ TextEmpty(url) \/ BodyEmpty(content) THEN "ValidationError"
    ELSE IF TooShort(content) THEN "None"
    ELSE IF db = "query_fails" THEN "DatabaseError"
    ELSE IF FindByUrl(arts, url) # {} THEN "None"
    ELSE IF ~ParseOk(published_at) THEN "ValidationError"
    ELSE "commit"

\* line 60-61, 67-70: db.add and db.commit, on the store the commit sees
AtCommit(arts, url, db) ==
    IF db = "commit_fails" \/ ~UniqueUrlOk(arts, TextStrip(url)) THEN "DatabaseError"
    ELSE "Article"

\* one call with nothing else running between its query and its commit
CreateArticleResult(arts, title, url, published_at, content, db) ==
    IF BeforeCommit(arts, title, url, published_at, content, db) # "commit"
    THEN BeforeCommit(arts, title, url, published_at, content, db)
    ELSE AtCommit(arts, url, db)

Bump(n) == IF n < 2 THEN n + 1 ELSE 2

create_article(title, url, description, published_at, content, images, db) ==
    LET ret == CreateArticleResult(articles, title, url, published_at, content, db)
        id == Len(articles) + 1
    IN  /\ ret = "Article" => Len(articles) < MaxArticles
        /\ IF ret = "Article"
           THEN /\ articles' = Append(articles,
                                      NewArticle(id, title, url, description, published_at))
                /\ contents' = Append(contents, NewContent(id, content, images))
           ELSE UNCHANGED <<articles, contents>>
        /\ call' = [op |-> "create_article", title |-> title, url |-> url,
                    published_at |-> published_at, content |-> content, ret |-> ret,
                    repeat |-> url \in called]
        /\ UNCHANGED enriched

(***************************************************************************)
(* Inputs of direct create_article calls                                   *)
(***************************************************************************)
Titles == {Text("", FALSE), Text("t", TRUE)}
Urls == {Text("", FALSE), Text("u1", FALSE), Text("u1", TRUE), Text("u2", FALSE)}
Bodies == {Body(0, 0, 0), Body(60, 10, 0), Body(0, 49, 1), Body(1, 50, 1)}
Date1 == <<2025, 6, 15>>
Date2 == <<2024, 2, 29>>
PubDates == {BadDate, Date1}
Descriptions == {[text |-> "d", html |-> TRUE]}
\* images: None (not given), or a list
ImageLists == {[given |-> FALSE, urls |-> <<>>]}

NoCall == [op |-> "none"]
NoCreate == [step |-> "none"]

CallCreateArticle ==
    \E title \in Titles, url \in Urls, description \in Descriptions,
       published_at \in PubDates, content \in Bodies, images \in ImageLists,
       db \in DbOutcomes :
        /\ create_article(title, url, description, published_at, content, images, db)
        /\ called' = called \cup {url}
        /\ inserted' = IF call'.ret = "Article" THEN inserted \cup {url} ELSE inserted
        /\ UNCHANGED <<indicators, runVars, window, creating, resp>>

(***************************************************************************)
(* create_article called by two ingesting instances at once: the dedupe    *)
(* query and the commit of a call are separate steps                       *)
(***************************************************************************)
RaceUrls == {Text("u1", FALSE), Text("u2", FALSE)}
RaceBodies == {Body(0, 49, 1), Body(1, 50, 1)}

\* line 33-46 of instance p's call
CreateBegin(p) ==
    /\ creating[p] = NoCreate
    /\ \E title \in Titles, url \in RaceUrls, description \in Descriptions,
          published_at \in PubDates, content \in RaceBodies, images \in ImageLists,
          db \in {"ok", "query_fails"} :
        LET pre == BeforeCommit(articles, title, url, published_at, content, db)
        IN  IF pre = "commit"
            THEN /\ creating' = [creating EXCEPT ![p] =
                        [step |-> "commit", title |-> title, url |-> url,
                         description |-> description, published_at |-> published_at,
                         content |-> content, images |-> images]]
                 /\ UNCHANGED call
            ELSE /\ call' = [op |-> "create_article", title |-> title, url |-> url,
                             published_at |-> published_at, content |-> content,
                             ret |-> pre, repeat |-> FALSE]
                 /\ UNCHANGED creating
    /\ UNCHANGED <<storeVars, indicators, called, inserted, runVars, window, resp>>

\* line 48-70 of instance p's call
CreateCommit(p) ==
    /\ creating[p] # NoCreate
    /\ \E db \in {"ok", "commit_fails"} :
        LET c == creating[p]
            ret == AtCommit(articles, c.url, db)
            id == Len(articles) + 1
        IN  /\ ret = "Article" => Len(articles) < MaxArticles
            /\ IF ret = "Article"
               THEN /\ articles' = Append(articles,
                                          NewArticle(id, c.title, c.url, c.description,
                                                     c.published_at))
                    /\ contents' = Append(contents, NewContent(id, c.content, c.images))
               ELSE UNCHANGED <<articles, contents>>
            /\ call' = [op |-> "create_article", title |-> c.title, url |-> c.url,
                        published_at |-> c.published_at, content |-> c.content,
                        ret |-> ret, repeat |-> FALSE]
    /\ creating' = [creating EXCEPT ![p] = NoCreate]
    /\ UNCHANGED <<enriched, indicators, called, inserted, runVars, window, resp>>

(***************************************************************************)
(* Dates: datetime.date and dateutil.relativedelta                         *)
(***************************************************************************)
Min(a, b) == IF a < b THEN a ELSE b

IsLeap(y) == (y % 4 = 0 /\ y % 100 # 0) \/ y % 400 = 0

\* calendar.monthrange(year, month)[1]
DaysInMonth(y, m) ==
    IF m = 2 THEN (IF IsLeap(y) THEN 29 ELSE 28)
    ELSE IF m \in {4, 6, 9, 11} THEN 30 ELSE 31

\* relativedelta(years=..., months=...): _fix() folds whole years out of months
Relativedelta(years, months) ==
    [years |-> years + (months \div 12), months |-> months % 12]

\* date - relativedelta: the year and month are shifted, the month wraps once,
\* and the day is clamped to the length of the resulting month
DateMinus(d, rd) ==
    LET y0 == d[1] - rd.years
        m0 == d[2] - rd.months
        y1 == IF m0 < 1 THEN y0 - 1 ELSE y0
        m1 == IF m0 < 1 THEN m0 + 12 ELSE m0
    IN  <<y1, m1, Min(DaysInMonth(y1, m1), d[3])>>

\* d1 <= d2 on dates
DateLT(d1, d2) ==
    \/ d1[1] < d2[1]
    \/ d1[1] = d2[1] /\ d1[2] < d2[2]
    \/ d1[1] = d2[1] /\ d1[2] = d2[2] /\ d1[3] < d2[3]
DateLE(d1, d2) ==
    \/ d1[1] < d2[1]
    \/ d1[1] = d2[1] /\ d1[2] < d2[2]
    \/ d1[1] = d2[1] /\ d1[2] = d2[2] /\ d1[3] <= d2[3]

(***************************************************************************)
(* services.get_contextual_statistics_for_article                          *)
(***************************************************************************)
IndicatorRows ==
    {[indicator_id |-> "KOSPI", name |-> "kospi", frequency |-> "D", unit |-> "pt"],
     [indicator_id |-> "CPI", name |-> "cpi", frequency |-> "M", unit |-> "idx"],
     [indicator_id |-> "GDP", name |-> "gdp", frequency |-> "Q", unit |-> "won"],
     [indicator_id |-> "RATE", name |-> "rate", frequency |-> NoValue, unit |-> "%"],
     [indicator_id |-> "WAGE", name |-> "wage", frequency |-> "A", unit |-> "won"]}

\* table statistics.observations, key (indicator_id, date)
Observations ==
    {[indicator_id |-> "KOSPI", date |-> <<2025, 3, 14>>, value |-> 1],
     [indicator_id |-> "KOSPI", date |-> <<2025, 3, 15>>, value |-> 2],
     [indicator_id |-> "KOSPI", date |-> <<2025, 6, 15>>, value |-> 3],
     [indicator_id |-> "KOSPI", date |-> <<2025, 6, 16>>, value |-> 4],
     [indicator_id |-> "KOSPI", date |-> <<2024, 1, 31>>, value |-> 5],
     [indicator_id |-> "CPI", date |-> <<2023, 6, 1>>, value |-> 6],
     [indicator_id |-> "CPI", date |-> <<2024, 6, 1>>, value |-> 7]}

\* line 162-171: the start of the window for an indicator's frequency
WindowStartSwapped(end_date, frequency) ==
    IF frequency = "D" THEN DateMinus(end_date, Relativedelta(0, 24))
    ELSE IF frequency = "M" THEN DateMinus(end_date, Relativedelta(0, 3))
    ELSE IF frequency = "Q" THEN DateMinus(end_date, Relativedelta(5, 0))
    ELSE DateMinus(end_date, Relativedelta(1, 0))
WindowStart(end_date, frequency) ==
    IF frequency = "D" THEN DateMinus(end_date, Relativedelta(0, 3))
    ELSE IF frequency = "M" THEN DateMinus(end_date, Relativedelta(0, 24))
    ELSE IF frequency = "Q" THEN DateMinus(end_date, Relativedelta(5, 0))
    ELSE DateMinus(end_date, Relativedelta(1, 0))

\* a set of observations as the list ordered by date ascending
SortByDate(S) ==
    CHOOSE s \in [1..Cardinality(S) -> S] :
        /\ \A i, j \in DOMAIN s : i # j => s[i] # s[j]
        /\ \A i, j \in DOMAIN s : i < j => DateLE(s[i].date, s[j].date)

\* Observation.date.between(start_date, end_date), order_by(date.asc())
ObservationsBetween(indicator_id, start_date, end_date) ==
    LET S == {o \in Observations : /\ o.indicator_id = indicator_id
                                   /\ DateLE(start_date, o.date)
                                   /\ DateLE(o.date, end_date)}
        sorted == SortByDate(S)
    IN  [k \in DOMAIN sorted |-> [date |-> sorted[k].date, value |-> sorted[k].value]]

MetaOfAny(inds, indicator_id) == inds
MetaOf(inds, indicator_id) == {m \in inds : m.indicator_id = indicator_id}

\* the ids of the request that have metadata, in request order
KnownIds(inds, indicator_ids) ==
    SelectSeq(indicator_ids, LAMBDA id : MetaOf(inds, id) # {})

\* the windows computed inside the loop, one per id with metadata
StatisticsWindows(inds, indicator_ids, end_date) ==
    LET known == KnownIds(inds, indicator_ids)
    IN  [k \in DOMAIN known |->
            LET meta == CHOOSE m \in MetaOf(inds, known[k]) : TRUE
            IN  [indicator_id |-> meta.indicator_id, frequency |-> meta.frequency,
                 end_date |-> end_date,
                 start_date |-> WindowStart(end_date, meta.frequency)]]

StatisticsReversed(inds, indicator_ids, end_date) ==
    LET known == KnownIds(inds, indicator_ids)
    IN  [k \in DOMAIN known |->
            LET meta == CHOOSE m \in MetaOf(inds, known[Len(known) + 1 - k]) : TRUE
            IN  [indicator_id |-> meta.indicator_id, name |-> meta.name,
                 unit |-> meta.unit, frequency |-> meta.frequency,
                 observations |->
                     ObservationsBetween(meta.indicator_id,
                                         WindowStart(end_date, meta.frequency),
                                         end_date)]]
get_contextual_statistics_for_article(inds, indicator_ids, end_date) ==
    LET known == KnownIds(inds, indicator_ids)
    IN  [k \in DOMAIN known |->
            LET meta == CHOOSE m \in MetaOf(inds, known[k]) : TRUE
            IN  [indicator_id |-> meta.indicator_id, name |-> meta.name,
                 unit |-> meta.unit, frequency |-> meta.frequency,
                 observations |->
                     ObservationsBetween(meta.indicator_id,
                                         WindowStart(end_date, meta.frequency),
                                         end_date)]]

(***************************************************************************)
(* Strings as sequences of characters, with the str operations the image   *)
(* filter uses                                                             *)
(***************************************************************************)
\* str.lower() on one character
LowerChar(c) ==
    CASE c = "A" -> "a"
        [] c = "B" -> "b"
        [] c = "C" -> "c"
        [] c = "D" -> "d"
        [] c = "E" -> "e"
        [] c = "F" -> "f"
        [] c = "G" -> "g"
        [] c = "H" -> "h"
        [] c = "I" -> "i"
        [] c = "J" -> "j"
        [] c = "K" -> "k"
        [] c = "L" -> "l"
        [] c = "M" -> "m"
        [] c = "N" -> "n"
        [] c = "O" -> "o"
        [] c = "P" -> "p"
        [] c = "Q" -> "q"
        [] c = "R" -> "r"
        [] c = "S" -> "s"
        [] c = "T" -> "t"
        [] c = "U" -> "u"
        [] c = "V" -> "v"
        [] c = "W" -> "w"
        [] c = "X" -> "x"
        [] c = "Y" -> "y"
        [] c = "Z" -> "z"
        [] OTHER -> c

Lower(s) == [i \in DOMAIN s |-> LowerChar(s[i])]

\* sub in s
Contains(s, sub) ==
    \E i \in 1..(Len(s) - Len(sub) + 1) : SubSeq(s, i, i + Len(sub) - 1) = sub

StartsWith(s, pre) == Len(pre) <= Len(s) /\ SubSeq(s, 1, Len(pre)) = pre
EndsWith(s, suf) == Len(suf) <= Len(s) /\ SubSeq(s, Len(s) - Len(suf) + 1, Len(s)) = suf

\* s.split(c)[0]
SplitFirst(s, c) ==
    IF \E i \in DOMAIN s : s[i] = c
    THEN SubSeq(s, 1, (CHOOSE i \in DOMAIN s : s[i] = c /\ \A j \in 1..(i - 1) : s[j] # c) - 1)
    ELSE s

Digits == <<"0", "1", "2", "3", "4", "5", "6", "7", "8", "9">>
IsDigit(c) == \E d \in DOMAIN Digits : Digits[d] = c
DigitValue(c) == (CHOOSE d \in DOMAIN Digits : Digits[d] = c) - 1

\* int() of a string of digits
RECURSIVE ToInt(_)
ToInt(ds) ==
    IF ds = <<>> THEN 0
    ELSE 10 * ToInt(SubSeq(ds, 1, Len(ds) - 1)) + DigitValue(ds[Len(ds)])

\* the end of the longest run of digits that starts at position i
DigitRunEnd(s, i) ==
    CHOOSE j \in i..Len(s) :
        /\ \A k \in i..j : IsDigit(s[k])
        /\ (j = Len(s) \/ ~IsDigit(s[j + 1]))

\* positions where (\d+)x(\d+) matches
SizeMatchAt(s, i) ==
    /\ IsDigit(s[i])
    /\ LET j == DigitRunEnd(s, i)
       IN  j + 2 <= Len(s) /\ s[j + 1] = "x" /\ IsDigit(s[j + 2])

SizeOf(s, i) ==
    LET j == DigitRunEnd(s, i)
    IN  <<ToInt(SubSeq(s, i, j)), ToInt(SubSeq(s, j + 2, DigitRunEnd(s, j + 2)))>>

SizeMatches(s) == {i \in DOMAIN s : SizeMatchAt(s, i)}

\* re.search(r'(\d+)x(\d+)', s): the leftmost match, as <<found, width, height>>
NoMatch == <<FALSE, 0, 0>>
SizeSearch(s) ==
    IF SizeMatches(s) = {} THEN NoMatch
    ELSE LET i == CHOOSE i \in SizeMatches(s) : \A k \in SizeMatches(s) : i <= k
         IN  <<TRUE, SizeOf(s, i)[1], SizeOf(s, i)[2]>>

(***************************************************************************)
(* collectors._is_valid_content_image                                      *)
(***************************************************************************)
\* the two Hangul characters of the Korean keyword are written as code points
ad_keywords ==
    {<<"b", "a", "n", "n", "e", "r">>, <<"a", "d">>, <<"a", "d", "s">>, <<"a", "d", "v">>,
     <<"a", "d", "v", "e", "r", "t", "i", "s", "e", "m", "e", "n", "t">>,
     <<"p", "r", "o", "m", "o">>, <<"p", "r", "o", "m", "o", "t", "i", "o", "n">>, <<"U+AD11", "U+ACE0">>,
     <<"p", "o", "p", "u", "p">>, <<"o", "v", "e", "r", "l", "a", "y">>,
     <<"s", "i", "d", "e", "b", "a", "r">>, <<"f", "o", "o", "t", "e", "r">>,
     <<"h", "e", "a", "d", "e", "r">>, <<"l", "o", "g", "o">>, <<"i", "c", "o", "n">>,
     <<"f", "a", "v", "i", "c", "o", "n">>, <<"p", "r", "o", "f", "i", "l", "e">>,
     <<"a", "v", "a", "t", "a", "r">>,
     <<"t", "h", "u", "m", "b", "n", "a", "i", "l", "_", "s", "m", "a", "l", "l">>,
     <<"t", "o", "p", "l", "o", "g", "o">>, <<"p", "r", "i", "n", "t", "l", "o", "g", "o">>,
     <<"d", "o", "w", "n", "l", "o", "g", "o">>, <<"l", "i", "g", "h", "t", "b", "u", "l", "b">>,
     <<"s", "m", "i", "l", "e", "y">>,
     <<"e", "d", "i", "t", "o", "r", "/", "i", "m", "a", "g", "e", "s">>,
     <<"n", "d", "s", "o", "f", "t", ".", "g", "i", "f">>}

size_filters ==
    {<<"s", "m", "a", "l", "l">>, <<"m", "i", "n", "i">>, <<"t", "i", "n", "y">>,
     <<"t", "h", "u", "m", "b">>, <<"5", "0", "x", "5", "0">>,
     <<"1", "0", "0", "x", "1", "0", "0">>, <<"1", "5", "0", "x", "1", "5", "0">>,
     <<"1", "6", "x", "1", "6">>, <<"3", "2", "x", "3", "2">>, <<"6", "4", "x", "6", "4">>,
     <<"i", "c", "o", "n">>}

valid_extensions ==
    {<<".", "j", "p", "g">>, <<".", "j", "p", "e", "g">>, <<".", "p", "n", "g">>,
     <<".", "g", "i", "f">>, <<".", "w", "e", "b", "p">>, <<".", "b", "m", "p">>}

ad_domains ==
    {<<"g", "o", "o", "g", "l", "e", "a", "d", "s">>,
     <<"d", "o", "u", "b", "l", "e", "c", "l", "i", "c", "k">>,
     <<"g", "o", "o", "g", "l", "e", "s", "y", "n", "d", "i", "c", "a", "t", "i", "o", "n">>,
     <<"a", "d", "s", "y", "s", "t", "e", "m">>,
     <<"f", "a", "c", "e", "b", "o", "o", "k", ".", "c", "o", "m", "/", "t", "r">>,
     <<"g", "o", "o", "g", "l", "e", "-", "a", "n", "a", "l", "y", "t", "i", "c", "s">>,
     <<"g", "t", "a", "g">>, <<"p", "i", "x", "e", "l">>}

MinImageSide == 150

HasAdKeyword(image_url) == \E keyword \in ad_keywords : Contains(Lower(image_url), keyword)
HasSizeFilter(image_url) == \E size \in size_filters : Contains(Lower(image_url), size)
has_valid_extension(image_url) ==
    \E ext \in valid_extensions : EndsWith(SplitFirst(image_url, "?"), ext)
TooSmallInUrl(image_url) ==
    LET size_match == SizeSearch(Lower(image_url))
    IN  size_match[1] /\ (size_match[2] < MinImageSide \/ size_match[3] < MinImageSide)
HasAdDomain(image_url) == \E domain \in ad_domains : Contains(Lower(image_url), domain)

_is_valid_content_image(image_url) ==
    IF image_url = <<>> THEN FALSE
    ELSE IF HasAdKeyword(image_url) THEN FALSE
    ELSE IF HasSizeFilter(image_url) THEN FALSE
    ELSE IF ~has_valid_extension(image_url) THEN FALSE
    ELSE IF TooSmallInUrl(image_url) THEN FALSE
    ELSE IF HasAdDomain(image_url) THEN FALSE
    ELSE TRUE

(***************************************************************************)
(* collectors.crawl_article_with_newspaper3k, as far as stage 1 reads it   *)
(***************************************************************************)
NoImages == [given |-> FALSE, urls |-> <<>>]
NoneTriple == [shape |-> 3, title |-> Text("", FALSE), content |-> Body(0, 0, 0),
               images |-> NoImages, probes |-> <<>>]

InSeq(x, seq) == \E k \in DOMAIN seq : seq[k] = x

Http == <<"h", "t", "t", "p">>
Https == <<"h", "t", "t", "p", "s">>

\* line 207: the auxiliary images checked by a network probe
ProbedImages == 3
\* line 214: filtered_images[:4]
MaxExtraImages == 4

\* line 201-203: the tests an auxiliary image has to pass
KeepsAnyImage(img, images) == img # <<>>
KeepsImage(img, images) ==
    /\ img # <<>>
    /\ ~InSeq(img, images)
    /\ (StartsWith(img, Http) \/ StartsWith(img, Https))
    /\ _is_valid_content_image(img)

\* _check_image_size: the probe says the image is large enough, or fails open;
\* small is the set of urls for which it answers False
_check_image_size(img, small) == img \notin small

\* line 200-211: the body of the loop for one url; acc holds filtered_images
\* and the urls _check_image_size was called with, in call order
LoopStep(img, small, keeps, acc) ==
    IF ~keeps THEN acc
    ELSE IF Len(acc.filtered_images) < ProbedImages
    THEN [filtered_images |-> IF _check_image_size(img, small)
                              THEN Append(acc.filtered_images, img)
                              ELSE acc.filtered_images,
          probed |-> Append(acc.probed, img)]
    ELSE [acc EXCEPT !.filtered_images = Append(@, img)]

\* line 199-211: the loop over article.images
RECURSIVE FilteredImages(_, _, _, _)
FilteredImages(imgs, images, small, acc) ==
    IF imgs = <<>> THEN acc
    ELSE FilteredImages(Tail(imgs), images, small,
                        LoopStep(Head(imgs), small, KeepsImage(Head(imgs), images), acc))

\* line 214: images.extend(filtered_images[:4])
Extracted(images, loop) ==
    [urls |-> images \o SubSeq(loop.filtered_images, 1,
                               Min(MaxExtraImages, Len(loop.filtered_images))),
     probes |-> loop.probed]

\* line 190-214: the main image, then at most four auxiliary ones; and the
\* probe requests made on the way
ExtractImages(page) ==
    LET images == IF page.top_image # <<>> /\ _is_valid_content_image(page.top_image)
                  THEN <<page.top_image>> ELSE <<>>
    IN  Extracted(images,
                  FilteredImages(page.images, images, page.small,
                                 [filtered_images |-> <<>>, probed |-> <<>>]))

\* line 217: return article.title, article.text, images
Crawled(page, extracted) ==
    [shape |-> 3, title |-> page.title, content |-> page.text,
     images |-> [given |-> TRUE, urls |-> extracted.urls],
     probes |-> extracted.probes]

\* shape is the length of the returned tuple: the except branch returns a pair
crawl_article_with_newspaper3k(page) ==
    IF page.raises THEN [NoneTriple EXCEPT !.shape = 2]
    ELSE IF TextEmpty(page.title) \/ BodyEmpty(page.text) THEN NoneTriple
    ELSE IF BodyLen(page.text) < MinCrawlLen THEN NoneTriple
    ELSE Crawled(page, ExtractImages(page))

ImgA == <<"h", "t", "t", "p", ":", "/", "/", "a", ".", "j", "p", "g">>
ImgB == <<"h", "t", "t", "p", "s", ":", "/", "/", "b", ".", "p", "n", "g">>
ImgM == <<"h", "t", "t", "p", ":", "/", "/", "m", ".", "j", "p", "g">>
ImgLogo == <<"h", "t", "t", "p", ":", "/", "/", "l", "o", "g", "o", ".", "j", "p", "g">>
ImgC == <<"h", "t", "t", "p", ":", "/", "/", "c", ".", "g", "i", "f">>
ImgD == <<"h", "t", "t", "p", ":", "/", "/", "d", ".", "j", "p", "g">>
ImgE == <<"h", "t", "t", "p", ":", "/", "/", "e", ".", "j", "p", "g">>
ImgRelative == <<"/", "c", ".", "j", "p", "g">>

\* a fetched page: article.title, article.text, article.top_image,
\* article.images, the urls the size probe finds too small, and whether
\* download() or parse() raises
FetchedPage(title, text, top_image, images, small, raises) ==
    [title |-> title, text |-> text, top_image |-> top_image, images |-> images,
     small |-> small, raises |-> raises]

\* a page without images
Page(title, text, raises) == FetchedPage(title, text, <<>>, <<>>, {}, raises)
Meta(url, pubDate, page) ==
    [originallink |-> url, description |-> [text |-> "d", html |-> TRUE],
     pubDate |-> pubDate, page |-> page]

GoodPage == Page(Text("t", FALSE), Body(0, 200, 0), FALSE)

\* search results the collector may hand to stage 1
Metas ==
    {Meta(Text("u1", FALSE), Date1, GoodPage),
     Meta(Text("u2", FALSE), Date2, GoodPage),
     Meta(Text("u3", FALSE), Date1, GoodPage),
     Meta(Text("u4", FALSE), BadDate, GoodPage),
     Meta(Text("u5", FALSE), Date1, Page(Text("t", FALSE), Body(0, 199, 0), FALSE)),
     Meta(Text("u5", FALSE), Date1, Page(Text("t", FALSE), Body(180, 30, 0), FALSE)),
     Meta(Text("u5", FALSE), Date1, Page(Text("t", FALSE), Body(0, 200, 0), TRUE))}

(***************************************************************************)
(* processors.analyze_article_with_llm and the checks of stage 2-2, 2-3    *)
(***************************************************************************)
Missing == "<missing>"
\* a parsed JSON object: whether it has the key background_knowledge, its
\* category, its related_statistics, and how many items its background_knowledge
\* and keywords lists have
LLMSized(bk, cat, rel, relNull, background, keywords) ==
    [kind |-> "dict", bk |-> bk, cat |-> cat, rel |-> rel, relNull |-> relNull,
     background |-> background, keywords |-> keywords]
\* an object with the two background items and four keywords the prompt asks for
LLMDict(bk, cat, rel, relNull) ==
    LLMSized(bk, cat, rel, relNull, IF bk THEN 2 ELSE 0, 4)
LLMNone == [kind |-> "none", bk |-> FALSE, cat |-> Missing, rel |-> <<>>, relNull |-> FALSE,
            background |-> 0, keywords |-> 0]

\* the call of line 116-127 ends with the exception `class` instead of a dict
LLMFailure(class) ==
    [kind |-> class, bk |-> FALSE, cat |-> Missing, rel |-> <<>>, relNull |-> FALSE,
     background |-> 0, keywords |-> 0]

\* exceptions the try block of line 115 can end with: json.JSONDecodeError,
\* the two openai classes of line 134, and anything else (Exception)
LLMFailures ==
    {LLMFailure("JSONDecodeError"), LLMFailure("APIConnectionError"),
     LLMFailure("APIStatusError"), LLMFailure("Exception")}

\* what the language model call can come back with
LLMResults ==
    LLMFailures \cup
    {
     LLMDict(TRUE, "fin", <<>>, FALSE),
     LLMSized(TRUE, "glob", <<"KOSPI", "", "GHOST", "CPI">>, FALSE, 3, 5),
     LLMDict(TRUE, "fin", <<"GHOST">>, FALSE),
     LLMDict(FALSE, "fin", <<>>, FALSE),
     LLMDict(TRUE, Missing, <<>>, FALSE),
     LLMDict(TRUE, NoValue, <<>>, FALSE),
     LLMDict(TRUE, "fin", <<>>, TRUE)}

\* get_available_indicators_for_llm: Indicator.name.isnot(None)
get_available_indicators_for_llm(inds) == {i \in inds : i.name # NoValue}

\* the function's result: the parsed dict, or None from each of the three
\* except clauses of line 129-139
analyze_article_with_llm(inds, llm) ==
    IF get_available_indicators_for_llm(inds) = {} THEN LLMNone
    ELSE IF llm.kind = "dict" THEN llm
    ELSE LLMNone

\* line 64: not analysis_result or a key is missing
Unusable(result) == result.kind = "none" \/ ~result.bk \/ result.cat = Missing

\* line 68-72: the ids of the items whose indicator_id is truthy
RelatedIds(result) == SelectSeq(result.rel, LAMBDA id : id # "")

(***************************************************************************)
(* services: status writes, lookup, selection, enrichment write            *)
(***************************************************************************)
SetStatus(arts, a, status) == [arts EXCEPT ![a].status = status]

\* db.query(Article).filter(Article.id == article_id).first()
FirstRow(arts, article_id) == IF Len(arts) > 0 THEN {1} ELSE {}
NoRow(arts, article_id) == {}
get_article_by_id(arts, article_id) == {i \in 1..Len(arts) : arts[i].id = article_id}

\* Article.status.in_([PENDING, FAILED])
SelectAll(arts) == 1..Len(arts)
SelectPendingOnly(arts) == {i \in 1..Len(arts) : arts[i].status = "PENDING"}
get_pending_articles(arts) ==
    {i \in 1..Len(arts) : arts[i].status \in {"PENDING", "FAILED"}}

\* the orders in which .all() may return a set of rows
Orders(S) == {s \in [1..Cardinality(S) -> S] : \A i, j \in DOMAIN s : i # j => s[i] # s[j]}

\* unique=True on enriched_articles.article_id, nullable=False on category
EnrichedConstraintsOk(rows, row) ==
    /\ EnrichedOf(rows, row.article_id) = {}
    /\ row.category # NoValue

NewEnriched(a, result, statistics_data) ==
    [article_id |-> a, category |-> result.cat,
     background |-> result.background, keywords |-> result.keywords,
     related_statistics |-> result.rel, statistics_data |-> statistics_data]

\* the rows after save_enriched_data_and_cleanup commits
SavedWithoutFlip(arts, a, result) == [arts EXCEPT ![a].category = result.cat]
SavedArticles(arts, a, result) ==
    [arts EXCEPT ![a].category = result.cat, ![a].status = "PROCESSED"]

(***************************************************************************)
(* scripts/pipeline.py: run_article_processing_pipeline, per instance p    *)
(***************************************************************************)
Instances == {1, 2}
InRun == {"ingest", "claim", "analyze", "stats", "save", "handler"}
NoProcess == {"idle", "crashed"}

NoOutcome == [a \in 1..MaxArticles |-> "none"]
NoAttempts == [a \in 1..MaxArticles |-> 0]

Article(p) == pending[p][idx[p]]

\* the loop goes to the next article, or the run ends
Advance(p) ==
    /\ idx' = [idx EXCEPT ![p] = @ + 1]
    /\ pc' = [pc EXCEPT ![p] = IF idx[p] < Len(pending[p]) THEN "claim" ELSE "done"]
    /\ analysis' = [analysis EXCEPT ![p] = LLMNone]
    /\ stats' = [stats EXCEPT ![p] = <<>>]
    /\ exc' = [exc EXCEPT ![p] = "none"]

\* an exception reaches the except clauses of the article loop
Raise(p, e, how) ==
    /\ pc' = [pc EXCEPT ![p] = "handler"]
    /\ exc' = [exc EXCEPT ![p] = e]
    /\ outcome' = [outcome EXCEPT ![p][Article(p)] = how]

StartRun(p) ==
    /\ pc[p] \in NoProcess
    /\ \E n \in 0..MaxCandidates : candidates' = [candidates EXCEPT ![p] = n]
    /\ pc' = [pc EXCEPT ![p] = "ingest"]
    /\ pending' = [pending EXCEPT ![p] = <<>>]
    /\ idx' = [idx EXCEPT ![p] = 0]
    /\ analysis' = [analysis EXCEPT ![p] = LLMNone]
    /\ stats' = [stats EXCEPT ![p] = <<>>]
    /\ exc' = [exc EXCEPT ![p] = "none"]
    /\ outcome' = [outcome EXCEPT ![p] = NoOutcome]
    /\ attempts' = [attempts EXCEPT ![p] = NoAttempts]
    /\ call' = [op |-> "call_naver_api"]
    /\ resp' = [op |-> "none"]
    /\ UNCHANGED <<storeVars, indicators, called, inserted, window, creating>>

\* stage 1, one search result: crawl, length check, create_article
Ingest(p) ==
    /\ pc[p] = "ingest"
    /\ candidates[p] > 0
    /\ \E meta \in Metas, db \in DbOutcomes :
        LET got == crawl_article_with_newspaper3k(meta.page)
        IN  IF got.shape # 3
            THEN \* title, content, images = <pair>: ValueError leaves the run
                 /\ pc' = [pc EXCEPT ![p] = "aborted"]
                 /\ call' = [op |-> "crawl_article_with_newspaper3k", ret |-> "ValueError"]
                 /\ UNCHANGED <<storeVars, candidates>>
            ELSE IF BodyEmpty(got.content) \/ BodyLen(got.content) < MinCrawlLen
            THEN /\ candidates' = [candidates EXCEPT ![p] = @ - 1]
                 /\ call' = [op |-> "crawl_article_with_newspaper3k", ret |-> "skip"]
                 /\ UNCHANGED <<storeVars, pc>>
            ELSE /\ create_article(got.title, meta.originallink, meta.description,
                                   meta.pubDate, got.content, got.images, db)
                 /\ IF call'.ret \in {"Article", "None"}
                    THEN /\ candidates' = [candidates EXCEPT ![p] = @ - 1]
                         /\ UNCHANGED pc
                    ELSE /\ pc' = [pc EXCEPT ![p] = "aborted"]
                         /\ UNCHANGED candidates
    /\ UNCHANGED <<indicators, called, inserted, pending, idx, analysis, stats, exc,
                   outcome, attempts, window, creating, resp>>

\* stage 2 begins: pending_articles = services.get_pending_articles(db)
Select(p) ==
    /\ pc[p] = "ingest"
    /\ candidates[p] = 0
    /\ \E dbOk \in BOOLEAN :
        IF dbOk
        THEN \E order \in Orders(get_pending_articles(articles)) :
                /\ pending' = [pending EXCEPT ![p] = order]
                /\ idx' = [idx EXCEPT ![p] = 1]
                /\ pc' = [pc EXCEPT ![p] = IF order = <<>> THEN "done" ELSE "claim"]
                /\ call' = [op |-> "get_pending_articles", ret |-> "ok"]
        ELSE /\ pc' = [pc EXCEPT ![p] = "aborted"]
             /\ call' = [op |-> "get_pending_articles", ret |-> "SQLAlchemyError"]
             /\ UNCHANGED <<pending, idx>>
    /\ UNCHANGED <<storeVars, indicators, called, inserted, candidates, analysis, stats,
                   exc, outcome, attempts, window, creating, resp>>

\* 2-1: services.update_article_status(db, article, PROCESSING)
Claim(p) ==
    /\ pc[p] = "claim"
    /\ attempts' = [attempts EXCEPT ![p][Article(p)] = Bump(@)]
    /\ \E dbOk \in BOOLEAN :
        IF dbOk
        THEN /\ articles' = SetStatus(articles, Article(p), "PROCESSING")
             /\ pc' = [pc EXCEPT ![p] = "analyze"]
             /\ call' = [op |-> "update_article_status", ret |-> "ok"]
             /\ UNCHANGED <<exc, outcome>>
        ELSE /\ Raise(p, "DatabaseError", "storage_failed")
             /\ call' = [op |-> "update_article_status", ret |-> "DatabaseError"]
             /\ UNCHANGED articles
    /\ UNCHANGED <<contents, enriched, indicators, called, inserted, candidates, pending,
                   idx, analysis, stats, window, creating, resp>>

\* 2-2: the Enricher call and the check of its result; 2-3: the related ids
Analyze(p) ==
    /\ pc[p] = "analyze"
    /\ \E dbOk \in BOOLEAN, llm \in LLMResults :
        LET result == analyze_article_with_llm(indicators, llm)
        IN  IF ~dbOk
            THEN /\ Raise(p, "SQLAlchemyError", "enricher_failed")
                 /\ call' = [op |-> "analyze_article_with_llm", ret |-> "SQLAlchemyError"]
                 /\ UNCHANGED <<analysis, stats>>
            ELSE IF Unusable(result)
            THEN /\ Raise(p, "ValueError", "enricher_failed")
                 /\ call' = [op |-> "analyze_article_with_llm", ret |-> "unusable"]
                 /\ UNCHANGED <<analysis, stats>>
            ELSE IF result.relNull
            THEN /\ Raise(p, "TypeError", "enricher_failed")
                 /\ call' = [op |-> "analyze_article_with_llm", ret |-> "null list"]
                 /\ UNCHANGED <<analysis, stats>>
            ELSE /\ analysis' = [analysis EXCEPT ![p] = result]
                 /\ stats' = [stats EXCEPT ![p] = <<>>]
                 /\ pc' = [pc EXCEPT ![p] = IF RelatedIds(result) = <<>> THEN "save"
                                            ELSE "stats"]
                 /\ call' = [op |-> "analyze_article_with_llm", ret |-> "ok"]
                 /\ UNCHANGED <<exc, outcome>>
    /\ UNCHANGED <<storeVars, indicators, called, inserted, candidates, pending, idx,
                   attempts, window, creating, resp>>

\* 2-3: services.get_contextual_statistics_for_article for the related ids
Stats(p) ==
    /\ pc[p] = "stats"
    /\ \E dbOk \in BOOLEAN :
        LET ids == RelatedIds(analysis[p])
            end_date == articles[Article(p)].published_at
        IN  IF dbOk
            THEN /\ stats' = [stats EXCEPT ![p] =
                        get_contextual_statistics_for_article(indicators, ids, end_date)]
                 /\ pc' = [pc EXCEPT ![p] = "save"]
                 /\ call' = [op |-> "get_contextual_statistics_for_article", ret |-> "ok"]
                 /\ UNCHANGED <<exc, outcome>>
            ELSE /\ Raise(p, "SQLAlchemyError", "storage_failed")
                 /\ call' = [op |-> "get_contextual_statistics_for_article",
                             ret |-> "SQLAlchemyError"]
                 /\ UNCHANGED stats
    /\ UNCHANGED <<storeVars, indicators, called, inserted, candidates, pending, idx,
                   analysis, attempts, window, creating, resp>>

\* 2-4: services.save_enriched_data_and_cleanup: one commit for row and status
Save(p) ==
    /\ pc[p] = "save"
    /\ \E dbOk \in BOOLEAN :
        LET a == Article(p)
            row == NewEnriched(a, analysis[p], stats[p])
        IN  IF dbOk /\ EnrichedConstraintsOk(enriched, row)
            THEN /\ enriched' = Append(enriched, row)
                 /\ articles' = SavedArticles(articles, a, analysis[p])
                 /\ outcome' = [outcome EXCEPT ![p][a] = "ok"]
                 /\ Advance(p)
                 /\ call' = [op |-> "save_enriched_data_and_cleanup", ret |-> "ok"]
            ELSE /\ Raise(p, "DatabaseError", "storage_failed")
                 /\ call' = [op |-> "save_enriched_data_and_cleanup",
                             ret |-> "DatabaseError"]
                 /\ UNCHANGED <<articles, enriched, idx, analysis, stats>>
    /\ UNCHANGED <<contents, indicators, called, inserted, candidates, pending, attempts,
                   window, creating, resp>>

\* the except clauses: rollback, re-fetch by id, update_article_status(FAILED)
Handler(p) ==
    /\ pc[p] = "handler"
    /\ \E dbOk \in BOOLEAN :
        IF dbOk
        THEN /\ articles' =
                    LET found == get_article_by_id(articles, Article(p))
                    IN  [i \in DOMAIN articles |->
                            IF i \in found THEN [articles[i] EXCEPT !.status = "FAILED"]
                            ELSE articles[i]]
             /\ Advance(p)
             /\ call' = [op |-> "update_article_status", ret |-> "ok"]
        ELSE \* the lookup or the status write raises inside the except clause
             /\ pc' = [pc EXCEPT ![p] = "aborted"]
             /\ call' = [op |-> "update_article_status", ret |-> "DatabaseError"]
             /\ UNCHANGED <<articles, idx, analysis, stats, exc>>
    /\ UNCHANGED <<contents, enriched, indicators, called, inserted, candidates, pending,
                   outcome, attempts, window, creating, resp>>

\* the locals of a process that is gone
Forget(p) ==
    /\ candidates' = [candidates EXCEPT ![p] = 0]
    /\ pending' = [pending EXCEPT ![p] = <<>>]
    /\ idx' = [idx EXCEPT ![p] = 0]
    /\ analysis' = [analysis EXCEPT ![p] = LLMNone]
    /\ stats' = [stats EXCEPT ![p] = <<>>]
    /\ exc' = [exc EXCEPT ![p] = "none"]
    /\ outcome' = [outcome EXCEPT ![p] = NoOutcome]
    /\ attempts' = [attempts EXCEPT ![p] = NoAttempts]
    /\ call' = NoCall

\* finally: db.close(); the function returns, or the exception leaves it
Exit(p) ==
    /\ pc[p] \in {"done", "aborted"}
    /\ pc' = [pc EXCEPT ![p] = "idle"]
    /\ Forget(p)
    /\ UNCHANGED <<storeVars, indicators, called, inserted, window, creating, resp>>

\* the process is killed in the middle of a run
Crash(p) ==
    /\ pc[p] \in InRun
    /\ pc' = [pc EXCEPT ![p] = "crashed"]
    /\ Forget(p)
    /\ UNCHANGED <<storeVars, indicators, called, inserted, window, creating, resp>>

Run(p) ==
    \/ StartRun(p)
    \/ Ingest(p)
    \/ Select(p)
    \/ Claim(p)
    \/ Analyze(p)
    \/ Stats(p)
    \/ Save(p)
    \/ Handler(p)
    \/ Exit(p)
    \/ Crash(p)

(***************************************************************************)
(* app/api/articles.py: the read API, on the committed tables              *)
(***************************************************************************)
Rows(table) == {table[k] : k \in DOMAIN table}

\* ArticleSimpleSchema
Simple(row) ==
    [id |-> row.id, title |-> row.title, description |-> row.description,
     category |-> row.category, published_at |-> row.published_at]

\* the orders order_by(Article.published_at.desc()) allows for a set of rows
DescOrders(S) ==
    {s \in Orders(S) : \A i, j \in DOMAIN s :
                          i < j => DateLE(s[j].published_at, s[i].published_at)}

\* .offset(skip).limit(limit)
Slice(s, skip, limit) == SubSeq(s, skip + 1, Min(Len(s), skip + limit))

Items(s) == [k \in DOMAIN s |-> Simple(s[k])]

\* .filter(Article.status == ArticleStatus.PROCESSED)
TodayFilterNone(arts) == arts
TodayFilter(arts) == {r \in arts : r.status = "PROCESSED"}

\* the responses get_today_news may give
get_today_news(arts, skip, limit) ==
    {[code |-> 200, items |-> Items(Slice(s, skip, limit))] :
        s \in DescOrders(TodayFilter(arts))}

CategoryFilter(arts, category) ==
    {r \in arts : r.status = "PROCESSED" /\ r.category = category}

NotFound == [code |-> 404, items |-> <<>>]

\* the responses get_news_by_category may give: 404 when the page is empty
get_news_by_category(arts, category, skip, limit) ==
    {IF Slice(s, skip, limit) = <<>> THEN NotFound
     ELSE [code |-> 200, items |-> Items(Slice(s, skip, limit))] :
        s \in DescOrders(CategoryFilter(arts, category))}

\* line 49: not article or article.status != PROCESSED
DetailHidden(arts, article_id) ==
    \/ {r \in arts : r.id = article_id} = {}
    \/ \E r \in arts : r.id = article_id /\ r.status # "PROCESSED"

\* get_article_detail: 404, or the article with its enrichment and images
get_article_detail(arts, conts, enrs, article_id) ==
    IF DetailHidden(arts, article_id) THEN NotFound
    ELSE LET article == CHOOSE r \in arts : r.id = article_id
         IN  [code |-> 200,
              items |-> <<Simple(article)>>,
              url |-> article.url,
              enriched |-> {e \in enrs : e.article_id = article_id},
              images |-> {c.images : c \in {c \in conts : c.article_id = article_id}}]

\* request parameters
Skips == {0, 1}
Limits == {1, 20}
Categories == {"fin", "glob"}
DetailIds == 1..(MaxArticles + 1)

\* a request is answered from the committed tables; the model serves requests
\* between runs (every committed store also occurs there, since a process may
\* be killed after any commit and an empty run may follow)
ReadToday ==
    /\ pc[1] = "idle"
    /\ \E skip \in Skips, limit \in Limits :
        \E r \in get_today_news(Rows(articles), skip, limit) :
            resp' = [op |-> "today", arg |-> <<skip, limit>>, r |-> r]
    /\ UNCHANGED <<storeVars, indicators, call, called, inserted, runVars, window, creating>>

ReadCategory ==
    /\ pc[1] = "idle"
    /\ \E category \in Categories, skip \in Skips, limit \in Limits :
        \E r \in get_news_by_category(Rows(articles), category, skip, limit) :
            resp' = [op |-> "category", arg |-> <<category, skip, limit>>, r |-> r]
    /\ UNCHANGED <<storeVars, indicators, call, called, inserted, runVars, window, creating>>

ReadDetail ==
    /\ pc[1] = "idle"
    /\ \E article_id \in DetailIds :
        resp' = [op |-> "detail", arg |-> <<article_id>>,
                 r |-> get_article_detail(Rows(articles), Rows(contents),
                                          Rows(enriched), article_id)]
    /\ UNCHANGED <<storeVars, indicators, call, called, inserted, runVars, window, creating>>

(***************************************************************************)
(* direct calls of services.get_contextual_statistics_for_article          *)
(***************************************************************************)
\* reference dates: first, middle and last days of every month of two years,
\* one of them a leap year
RefDates ==
    {d \in {2024, 2025} \X (1..12) \X {1, 15, 28, 29, 30, 31} :
        d[3] <= DaysInMonth(d[1], d[2])}

\* requested indicator ids; GHOST has no metadata
IdLists ==
    {<<>>, <<"KOSPI">>, <<"CPI">>, <<"GDP">>, <<"RATE">>, <<"WAGE">>,
     <<"GHOST", "KOSPI">>, <<"CPI", "GDP", "CPI">>}

CallGetTimeSeries ==
    /\ \E indicator_ids \in IdLists, end_date \in RefDates :
        /\ window' = StatisticsWindows(indicators, indicator_ids, end_date)
        /\ call' = [op |-> "get_contextual_statistics_for_article",
                    indicator_ids |-> indicator_ids, end_date |-> end_date,
                    ret |-> get_contextual_statistics_for_article(
                                indicators, indicator_ids, end_date)]
    /\ UNCHANGED <<storeVars, indicators, called, inserted, runVars, resp, creating>>

(***************************************************************************)
(* direct calls of collectors._is_valid_content_image                      *)
(***************************************************************************)
MaxTokens == 3

UrlPrefix == <<"h", "t", "t", "p", "s", ":", "/", "/", "x", ".", "c", "o", "m", "/">>

\* pieces a url is put together from
UrlTokens ==
    {<<"p", "h", "o", "t", "o">>,
     <<"B", "a", "n", "n", "e", "r">>,
     <<"-", "8", "0", "0", "x", "6", "0", "0">>,
     <<"-", "1", "2", "0", "x", "9", "0">>,
     <<".", "j", "p", "g">>,
     <<".", "J", "P", "G">>,
     <<"?", "w", "=", "1">>,
     <<"t", "h", "u", "m", "b">>,
     <<"p", "i", "x", "e", "l">>}

RECURSIVE Join(_)
Join(ts) == IF ts = <<>> THEN <<>> ELSE Head(ts) \o Join(Tail(ts))

BannerUrl == <<"h", "t", "t", "p", "s", ":", "/", "/", "x", ".", "c", "o", "m", "/", "b", "a", "n", "n", "e", "r", "-", "a", "d", "-", "3", "0", "0", "x", "5", "0", ".", "p", "n", "g">>
PhotoUrl == <<"h", "t", "t", "p", "s", ":", "/", "/", "x", ".", "c", "o", "m", "/", "n", "e", "w", "s", "/", "p", "h", "o", "t", "o", "-", "8", "0", "0", "x", "6", "0", "0", ".", "j", "p", "g">>

ImageUrls ==
    {<<>>, BannerUrl, PhotoUrl}
        \cup {UrlPrefix \o Join(ts) : ts \in UNION {[1..n -> UrlTokens] : n \in 0..MaxTokens}}

CallIsValidContentImage ==
    /\ call.op = "image_url"
    /\ call' = [op |-> "_is_valid_content_image", image_url |-> call.image_url,
                ret |-> _is_valid_content_image(call.image_url)]
    /\ UNCHANGED <<storeVars, indicators, called, inserted, runVars, window, creating, resp>>

(***************************************************************************)
(* direct calls of collectors.crawl_article_with_newspaper3k               *)
(***************************************************************************)
RECURSIVE Pick(_, _, _)
\* the elements of seq at the positions in S, from position i on
Pick(seq, S, i) ==
    IF i > Len(seq) THEN <<>>
    ELSE (IF i \in S THEN <<seq[i]>> ELSE <<>>) \o Pick(seq, S, i + 1)

\* article.images in the order the page lists them: every selection from a
\* list with a repeated url, a rejected url and a relative url
AuxBase == <<ImgA, ImgLogo, ImgB, ImgA, ImgRelative, ImgC, ImgD, ImgE>>
AuxLists == {Pick(AuxBase, S, 1) : S \in SUBSET DOMAIN AuxBase}

TopImages == {<<>>, ImgA, ImgLogo, ImgM}
SmallSets == SUBSET {ImgA, ImgB}

PageTitles == {Text("", FALSE), Text("t", FALSE)}
PageTexts == {Body(0, 0, 0), Body(0, 199, 0), Body(180, 30, 0), Body(0, 200, 0)}

FetchedPages ==
    {FetchedPage(Text("t", FALSE), Body(0, 200, 0), top_image, images, small, FALSE) :
        top_image \in TopImages, images \in AuxLists, small \in SmallSets}
    \cup {Page(title, text, raises) :
        title \in PageTitles, text \in PageTexts, raises \in BOOLEAN}

CallCrawl ==
    /\ call.op = "fetched_page"
    /\ call' = [op |-> "crawl_article_with_newspaper3k", page |-> call.page,
                ret |-> crawl_article_with_newspaper3k(call.page)]
    /\ UNCHANGED <<storeVars, indicators, called, inserted, runVars, window, creating, resp>>

(***************************************************************************)
(* direct calls of processors.analyze_article_with_llm                     *)
(***************************************************************************)
\* an indicator row without a name
NamelessIndicator ==
    [indicator_id |-> "X", name |-> NoValue, frequency |-> "M", unit |-> "idx"]

\* contents of the indicator table the function may find
EnricherStores == (SUBSET IndicatorRows) \cup {{NamelessIndicator}}

CallAnalyze ==
    /\ call.op = "llm_outcome"
    /\ call' = [op |-> "analyze_article_with_llm", llm |-> call.llm, inds |-> call.inds,
                ret |-> analyze_article_with_llm(call.inds, call.llm)]
    /\ UNCHANGED <<storeVars, indicators, called, inserted, runVars, window, creating, resp>>

(***************************************************************************)
(* pipeline.py (the domain-term path): run_article_processing_pipeline     *)
(***************************************************************************)
MinSentenceLen == 10
MaxStoredArticles == 2
MaxSharedArticles == 1

\* kss.split_sentences(full_content): the trimmed lengths of the sentences the
\* splitter finds in a content
SentenceSplits == {<<>>, <<9>>, <<3, 9>>, <<10>>, <<9, 25>>}

\* valid_sentences = [s for s in sentences if len(s.strip()) >= 10]
LongEnough(n) == n >= MinSentenceLen
valid_sentences(sentences) == SelectSeq(sentences, LongEnough)

\* processors.get_embeddings_in_batch: one vector per sentence, fewer than
\* asked for, or the error of the embedding service
EmbeddingOutcomes == {"ok", "short", "OpenAIError"}
get_embeddings_in_batch(sentences, how) ==
    IF how = "ok" THEN Len(sentences)
    ELSE IF how = "short" THEN Len(sentences) - 1
    ELSE 0

\* services.find_top_similar_terms: the terms nearest to the centroid with
\* their stored summaries, at most TopK of the term store
TopK == 4
TermStores == {<<>>, <<"t1">>, <<"t1", "t2", "t3", "t4", "t5">>}
TermRow(term) == [indicator_id |-> term, observations |-> <<>>]
find_top_similar_terms(terms) ==
    [k \in 1..(IF Len(terms) < TopK THEN Len(terms) ELSE TopK) |-> TermRow(terms[k])]

\* processors.get_enrichment_from_llm: None, or a dict with or without the
\* keys background and category
TermLLMResults ==
    {LLMNone,
     LLMSized(TRUE, "fin", <<>>, TRUE, 0, 4),
     LLMSized(FALSE, "fin", <<>>, TRUE, 0, 4),
     LLMSized(TRUE, Missing, <<>>, TRUE, 0, 4)}
get_enrichment_from_llm(llm) == llm
TermUnusable(enriched_data) ==
    \/ enriched_data.kind = "none"
    \/ ~enriched_data.bk
    \/ enriched_data.cat = Missing

\* stage 1 of this path: title, content = crawl_article_with_newspaper3k(url)
TermIngest(p) ==
    /\ pc[p] = "ingest"
    /\ candidates[p] > 0
    /\ \E meta \in Metas :
        LET got == crawl_article_with_newspaper3k(meta.page)
        IN  IF got.shape # 2
            THEN \* title, content = <triple>: ValueError leaves the run
                 /\ pc' = [pc EXCEPT ![p] = "aborted"]
                 /\ call' = [op |-> "crawl_article_with_newspaper3k", ret |-> "ValueError"]
                 /\ UNCHANGED candidates
            ELSE \* the pair is (None, None): if not content: continue
                 /\ candidates' = [candidates EXCEPT ![p] = @ - 1]
                 /\ call' = [op |-> "crawl_article_with_newspaper3k", ret |-> "skip"]
                 /\ UNCHANGED pc
    /\ UNCHANGED <<storeVars, indicators, called, inserted, pending, idx, analysis, stats,
                   exc, outcome, attempts, window, creating, resp>>

\* 2-1: services.update_article_status(db, article, PROCESSING)
TermClaim(p) ==
    /\ pc[p] = "claim"
    /\ attempts' = [attempts EXCEPT ![p][Article(p)] = Bump(@)]
    /\ \E dbOk \in BOOLEAN :
        IF dbOk
        THEN /\ articles' = SetStatus(articles, Article(p), "PROCESSING")
             /\ pc' = [pc EXCEPT ![p] = "sentences"]
             /\ call' = [op |-> "update_article_status", ret |-> "ok"]
             /\ UNCHANGED <<exc, outcome>>
        ELSE /\ Raise(p, "DatabaseError", "storage_failed")
             /\ call' = [op |-> "update_article_status", ret |-> "DatabaseError"]
             /\ UNCHANGED articles
    /\ UNCHANGED <<contents, enriched, indicators, called, inserted, candidates, pending,
                   idx, analysis, stats, window, creating, resp>>

\* 2-2 .. 2-4: sentence split, filter, embeddings, the sentence rows
TermSentences(p) ==
    /\ pc[p] = "sentences"
    /\ \E sentences \in SentenceSplits, how \in EmbeddingOutcomes, dbOk \in BOOLEAN :
        LET valid == valid_sentences(sentences)
            embeddings == get_embeddings_in_batch(valid, how)
        IN  IF valid = <<>>
            THEN /\ Raise(p, "Exception", "no_sentence")
                 /\ call' = [op |-> "split_sentences", ret |-> "no valid sentence"]
            ELSE IF how = "OpenAIError"
            THEN /\ Raise(p, "OpenAIError", "embedding_failed")
                 /\ call' = [op |-> "get_embeddings_in_batch", ret |-> "OpenAIError"]
            ELSE IF embeddings = 0 \/ embeddings # Len(valid)
            THEN /\ Raise(p, "Exception", "embedding_failed")
                 /\ call' = [op |-> "get_embeddings_in_batch", ret |-> "count"]
            ELSE IF ~dbOk
            THEN /\ Raise(p, "DatabaseError", "storage_failed")
                 /\ call' = [op |-> "save_sentences_and_get_objects",
                             ret |-> "DatabaseError"]
            ELSE /\ pc' = [pc EXCEPT ![p] = "match"]
                 /\ call' = [op |-> "save_sentences_and_get_objects", ret |-> "ok"]
                 /\ UNCHANGED <<exc, outcome>>
    /\ UNCHANGED <<storeVars, indicators, called, inserted, candidates, pending, idx,
                   analysis, stats, attempts, window, creating, resp>>

\* 2-5, 2-6: core sentences, centroid, the nearest domain terms
TermMatch(p) ==
    /\ pc[p] = "match"
    /\ \E terms \in TermStores, dbOk \in BOOLEAN :
        LET top_terms_with_summary == find_top_similar_terms(terms)
        IN  IF ~dbOk
            THEN /\ Raise(p, "SQLAlchemyError", "storage_failed")
                 /\ call' = [op |-> "find_top_similar_terms", ret |-> "SQLAlchemyError"]
                 /\ UNCHANGED stats
            ELSE IF top_terms_with_summary = <<>>
            THEN /\ Raise(p, "Exception", "no_term")
                 /\ call' = [op |-> "find_top_similar_terms", ret |-> "no term"]
                 /\ UNCHANGED stats
            ELSE /\ stats' = [stats EXCEPT ![p] = top_terms_with_summary]
                 /\ pc' = [pc EXCEPT ![p] = "enrich"]
                 /\ call' = [op |-> "find_top_similar_terms", ret |-> "ok"]
                 /\ UNCHANGED <<exc, outcome>>
    /\ UNCHANGED <<storeVars, indicators, called, inserted, candidates, pending, idx,
                   analysis, attempts, window, creating, resp>>

\* 2-7: the language model call and the check of its result; 2-8 is Save
TermEnrich(p) ==
    /\ pc[p] = "enrich"
    /\ \E llm \in TermLLMResults :
        LET enriched_data == get_enrichment_from_llm(llm)
        IN  IF TermUnusable(enriched_data)
            THEN /\ Raise(p, "Exception", "enricher_failed")
                 /\ call' = [op |-> "get_enrichment_from_llm", ret |-> "unusable"]
                 /\ UNCHANGED analysis
            ELSE /\ analysis' = [analysis EXCEPT ![p] = enriched_data]
                 /\ pc' = [pc EXCEPT ![p] = "save"]
                 /\ call' = [op |-> "get_enrichment_from_llm", ret |-> "ok"]
                 /\ UNCHANGED <<exc, outcome>>
    /\ UNCHANGED <<storeVars, indicators, called, inserted, candidates, pending, idx,
                   stats, attempts, window, creating, resp>>

(***************************************************************************)
(* Specifications                                                          *)
(***************************************************************************)
IndicatorStores == {{}, IndicatorRows}

Init ==
    /\ articles = <<>>
    /\ contents = <<>>
    /\ enriched = <<>>
    /\ indicators \in IndicatorStores
    /\ call = NoCall
    /\ called = {}
    /\ inserted = {}
    /\ pc = [p \in Instances |-> "idle"]
    /\ candidates = [p \in Instances |-> 0]
    /\ pending = [p \in Instances |-> <<>>]
    /\ idx = [p \in Instances |-> 0]
    /\ analysis = [p \in Instances |-> LLMNone]
    /\ stats = [p \in Instances |-> <<>>]
    /\ exc = [p \in Instances |-> "none"]
    /\ outcome = [p \in Instances |-> NoOutcome]
    /\ attempts = [p \in Instances |-> NoAttempts]
    /\ window = <<>>
    /\ resp = [op |-> "none"]
    /\ creating = [p \in Instances |-> NoCreate]

\* one pipeline instance at a time
Next == \E p \in {1} : Run(p)

Spec == Init /\ [][Next]_vars

\* one pipeline instance and readers of the API
NextRead == Next \/ ReadToday \/ ReadCategory \/ ReadDetail

SpecRead == Init /\ [][NextRead]_vars

\* direct calls of the statistics lookup only
NextStats == CallGetTimeSeries

SpecStats == Init /\ [][NextStats]_vars

\* the state before any call, with the arguments of the call to come in `call`
InitCall(arguments) ==
    /\ articles = <<>>
    /\ contents = <<>>
    /\ enriched = <<>>
    /\ indicators = IndicatorRows
    /\ call \in arguments
    /\ called = {}
    /\ inserted = {}
    /\ pc = [p \in Instances |-> "idle"]
    /\ candidates = [p \in Instances |-> 0]
    /\ pending = [p \in Instances |-> <<>>]
    /\ idx = [p \in Instances |-> 0]
    /\ analysis = [p \in Instances |-> LLMNone]
    /\ stats = [p \in Instances |-> <<>>]
    /\ exc = [p \in Instances |-> "none"]
    /\ outcome = [p \in Instances |-> NoOutcome]
    /\ attempts = [p \in Instances |-> NoAttempts]
    /\ window = <<>>
    /\ resp = [op |-> "none"]
    /\ creating = [p \in Instances |-> NoCreate]

\* direct calls of the image filter only, one per url
InitFilter == InitCall({[op |-> "image_url", image_url |-> u] : u \in ImageUrls})

NextFilter == CallIsValidContentImage

SpecFilter == InitFilter /\ [][NextFilter]_vars

\* direct calls of the crawl function only, one per fetched page
InitCrawl == InitCall({[op |-> "fetched_page", page |-> pg] : pg \in FetchedPages})

NextCrawl == CallCrawl

SpecCrawl == InitCrawl /\ [][NextCrawl]_vars

\* two instances calling create_article
NextRace == \E p \in Instances : CreateBegin(p) \/ CreateCommit(p)

SpecRace == Init /\ [][NextRace]_vars

\* direct calls of the Enricher only, one per outcome of the model call
InitEnricher ==
    InitCall({[op |-> "llm_outcome", llm |-> llm, inds |-> inds] :
                 llm \in LLMResults, inds \in EnricherStores})

NextEnricher == CallAnalyze

SpecEnricher == InitEnricher /\ [][NextEnricher]_vars

\* direct calls of create_article only
NextCreate == CallCreateArticle

SpecCreate == Init /\ [][NextCreate]_vars

\* runs of one pipeline instance whose process is never killed, started again
\* and again by the scheduler
NextLive ==
    \/ StartRun(1)
    \/ Ingest(1)
    \/ Select(1)
    \/ Claim(1)
    \/ Analyze(1)
    \/ Stats(1)
    \/ Save(1)
    \/ Handler(1)
    \/ Exit(1)

\* the process always takes its next step, and the scheduler starts the next
\* run after a run has ended
SpecLive == Init /\ [][NextLive]_vars /\ WF_vars(NextLive)

\* the store the domain-term path finds: articles the other path ingested and
\* left PENDING or FAILED
UrlNames == <<"u1", "u2", "u3", "u4">>
StoredArticle(id, status) ==
    [NewArticle(id, Text("t", FALSE), Text(UrlNames[id], FALSE),
                [text |-> "d", html |-> TRUE], Date1) EXCEPT !.status = status]
StoredContent(id) == NewContent(id, Body(0, 200, 0), [given |-> FALSE, urls |-> <<>>])

InitStoredUpTo(most) ==
    /\ \E n \in 0..most :
        /\ articles \in [1..n -> {StoredArticle(id, st) : id \in 1..n,
                                                          st \in {"PENDING", "FAILED"}}]
        /\ \A i \in 1..n : articles[i].id = i
        /\ contents = [i \in 1..n |-> StoredContent(i)]
    /\ enriched = <<>>
    /\ indicators = IndicatorRows
    /\ call = NoCall
    /\ called = {}
    /\ inserted = {}
    /\ pc = [p \in Instances |-> "idle"]
    /\ candidates = [p \in Instances |-> 0]
    /\ pending = [p \in Instances |-> <<>>]
    /\ idx = [p \in Instances |-> 0]
    /\ analysis = [p \in Instances |-> LLMNone]
    /\ stats = [p \in Instances |-> <<>>]
    /\ exc = [p \in Instances |-> "none"]
    /\ outcome = [p \in Instances |-> NoOutcome]
    /\ attempts = [p \in Instances |-> NoAttempts]
    /\ window = <<>>
    /\ resp = [op |-> "none"]
    /\ creating = [p \in Instances |-> NoCreate]

InitStored == InitStoredUpTo(MaxStoredArticles)

\* runs of one instance of the domain-term path
NextTerms ==
    \/ StartRun(1)
    \/ TermIngest(1)
    \/ Select(1)
    \/ TermClaim(1)
    \/ TermSentences(1)
    \/ TermMatch(1)
    \/ TermEnrich(1)
    \/ Save(1)
    \/ Handler(1)
    \/ Exit(1)

SpecTerms == InitStored /\ [][NextTerms]_vars

\* a run whose search returns no result goes straight to stage 2
StartEmptyRun(p) == StartRun(p) /\ candidates'[p] = 0

\* two pipeline instances over one store of ingested articles
NextTwo ==
    \E p \in Instances :
        \/ StartEmptyRun(p)
        \/ Select(p)
        \/ Claim(p)
        \/ Analyze(p)
        \/ Stats(p)
        \/ Save(p)
        \/ Handler(p)
        \/ Exit(p)

InitShared == InitStoredUpTo(MaxSharedArticles)

SpecTwo == InitShared /\ [][NextTwo]_vars

(***************************************************************************)
(* Properties of create_article, checked under SpecCreate                  *)
(***************************************************************************)
IsCreateCall(c) == c.op = "create_article"

\* a call whose body has trimmed length below the floor
ShortBodyCall(c) == IsCreateCall(c) /\ TooShort(c.content)

\* ... and whose title, url and body are all non-empty
WellFormedShortBodyCall(c) ==
    /\ ShortBodyCall(c)
    /\ ~TextEmpty(c.title) /\ ~TextEmpty(c.url) /\ ~BodyEmpty(c.content)

ContentFloor(rows) ==
    \A k \in DOMAIN rows : BodyLen(BodyStrip(rows[k].content)) >= MinContentLen

\* C3 as stated: after two create_article calls that carry the identical url
\* (whatever their other fields), the store holds exactly one Article with
\* that url.
C3_ExactlyOneAfterTwoCalls ==
    (IsCreateCall(call) /\ call.repeat) => CountUrl(articles, TextStrip(call.url)) = 1

\* C3 as amended: no two stored Articles share a url after any sequence of
\* create_article calls, and a url for which some call returned an Article is
\* stored exactly once, however many calls carried it.
C3_AtMostOnePerUrl ==
    /\ \A i, j \in DOMAIN articles : articles[i].url = articles[j].url => i = j
    /\ \A u \in called : CountUrl(articles, TextStrip(u)) <= 1
    /\ \A u \in inserted : CountUrl(articles, TextStrip(u)) = 1

\* a second call with a url that an earlier call inserted; one Article is stored
C3_Witness ==
    /\ IsCreateCall(call) /\ call.repeat /\ call.url \in inserted
    /\ call.ret # "Article"
    /\ CountUrl(articles, TextStrip(call.url)) = 1

\* C4 as stated: no stored body has trimmed length below 50, and every call
\* whose body has trimmed length below 50 returns None without raising and
\* leaves the store unchanged.
C4_SilentRejectAlways ==
    [][/\ ContentFloor(contents')
       /\ ShortBodyCall(call') => (call'.ret = "None" /\ UNCHANGED storeVars)]_vars

\* C4 as amended: no stored body has trimmed length below 50; every call whose
\* body has trimmed length below 50 leaves the store unchanged; it returns None
\* without raising when title, url and body are non-empty.
C4_ContentFloor ==
    [][/\ ContentFloor(contents')
       /\ ShortBodyCall(call') => (call'.ret \in {"None", "ValidationError"}
                                   /\ UNCHANGED storeVars)
       /\ WellFormedShortBodyCall(call') => call'.ret = "None"]_vars

\* a non-empty body of 60 blanks and 10 characters was rejected silently while
\* an Article is stored
C4_Witness ==
    /\ WellFormedShortBodyCall(call) /\ call.ret = "None"
    /\ BodyLen(call.content) >= MinContentLen
    /\ Len(articles) > 0

\* a call with an empty title, url or body
EmptyFieldCall(c) ==
    IsCreateCall(c) /\ (TextEmpty(c.title) \/ TextEmpty(c.url) \/ BodyEmpty(c.content))

\* a call with a publish date that does not parse
BadDateCall(c) == IsCreateCall(c) /\ c.published_at = BadDate

\* C14 as stated: a call with an empty title, url or body, or an unparsable
\* publish date, ends in a validation failure, and a validation failure
\* leaves the store as it was.
C14_MalformedAlwaysValidationError ==
    [][/\ (EmptyFieldCall(call') \/ BadDateCall(call')) => call'.ret = "ValidationError"
       /\ (IsCreateCall(call') /\ call'.ret = "ValidationError") => UNCHANGED storeVars]_vars

\* C14 as amended: a call with an empty title, url or body ends in a
\* validation failure; so does a call with an unparsable publish date whose
\* other fields are non-empty, whose body has trimmed length of at least 50
\* and whose url is not stored, unless the dedupe query fails with a storage
\* error (a short body or a stored url returns None first); no call with
\* malformed input and no validation failure changes the store.
C14_MalformedRejectedBeforeInsert ==
    [][/\ EmptyFieldCall(call') => call'.ret = "ValidationError"
       /\ (/\ BadDateCall(call') /\ ~EmptyFieldCall(call')
           /\ ~TooShort(call'.content)
           /\ FindByUrl(articles, call'.url) = {})
             => call'.ret \in {"ValidationError", "DatabaseError"}
       /\ (BadDateCall(call') /\ call'.ret # "ValidationError")
             => call'.ret \in {"None", "DatabaseError"}
       /\ (EmptyFieldCall(call') \/ BadDateCall(call')) => UNCHANGED storeVars
       /\ (IsCreateCall(call') /\ call'.ret = "ValidationError") => UNCHANGED storeVars]_vars

\* a call with good fields and an unparsable date was rejected with a
\* validation failure while another Article is stored
C14_Witness ==
    /\ BadDateCall(call) /\ ~EmptyFieldCall(call) /\ ~TooShort(call.content)
    /\ call.ret = "ValidationError"
    /\ FindByUrl(articles, call.url) = {}
    /\ Len(articles) = 1 /\ Len(contents) = 1

(***************************************************************************)
(* Properties of the article lifecycle, checked under Spec (one instance)  *)
(***************************************************************************)
Status(a) == articles[a].status
NumEnriched(a) == Cardinality(EnrichedOf(enriched, a))
EnrichedRows(rows, a) == {rows[k] : k \in EnrichedOf(rows, a)}

\* C1: with one pipeline instance, in every committed store state an article
\* is PROCESSED if and only if exactly one EnrichedArticle row exists for it,
\* and a FAILED article has no EnrichedArticle row.
C1_StatusInvariant ==
    \A a \in ArticleIds :
        /\ Status(a) = "PROCESSED" <=> NumEnriched(a) = 1
        /\ Status(a) = "FAILED" => NumEnriched(a) = 0

\* one article PROCESSED with its row, another FAILED after its enrichment
\* write was rolled back
C1_Witness ==
    \E a, b \in ArticleIds :
        /\ Status(a) = "PROCESSED" /\ NumEnriched(a) = 1
        /\ Status(b) = "FAILED" /\ NumEnriched(b) = 0
        /\ outcome[1][b] = "storage_failed" /\ attempts[1][b] = 1
        /\ call.op = "update_article_status"

\* C2: in one run, when the Enricher call of article n fails, every other
\* selected article whose own stages all succeeded is PROCESSED.
C2_FailureIsolation ==
    \A a, n \in ArticleIds :
        (outcome[1][n] = "enricher_failed" /\ outcome[1][a] = "ok")
            => Status(a) = "PROCESSED"

\* a finished run over three articles: the second one's Enricher call failed,
\* the first and the third are PROCESSED
C2_Witness ==
    /\ pc[1] = "done" /\ Len(pending[1]) = 3
    /\ outcome[1][pending[1][2]] = "enricher_failed"
    /\ Status(pending[1][2]) = "FAILED"
    /\ outcome[1][pending[1][1]] = "ok" /\ Status(pending[1][1]) = "PROCESSED"
    /\ outcome[1][pending[1][3]] = "ok" /\ Status(pending[1][3]) = "PROCESSED"

\* C5: once an article is PROCESSED, no step of this or a later run changes
\* its status or creates, replaces or removes its EnrichedArticle row.
C5_ProcessedIsTerminal ==
    [][\A a \in ArticleIds :
          Status(a) = "PROCESSED"
              => /\ articles'[a].status = "PROCESSED"
                 /\ EnrichedRows(enriched', a) = EnrichedRows(enriched, a)]_vars

\* a later run works on another article while a PROCESSED one exists
C5_Witness ==
    \E a \in ArticleIds :
        /\ Status(a) = "PROCESSED" /\ attempts[1][a] = 0
        /\ pc[1] = "save" /\ Article(1) # a

AllowedTransitions ==
    {<<"PENDING", "PROCESSING">>, <<"FAILED", "PROCESSING">>,
     <<"PROCESSING", "PROCESSED">>, <<"PROCESSING", "FAILED">>}

\* C6: the only committed status changes are PENDING->PROCESSING,
\* FAILED->PROCESSING, PROCESSING->PROCESSED and PROCESSING->FAILED, also when
\* a status write fails.
C6_OnlyLifecycleTransitions ==
    [][\A a \in ArticleIds :
          articles'[a].status # Status(a)
              => <<Status(a), articles'[a].status>> \in AllowedTransitions]_vars

\* C7: when a run ends without the process being killed, every article
\* selected at the start of stage 2 was attempted exactly once and is
\* PROCESSED or FAILED, whatever stage failed.
C7_EverySelectedArticleTerminal ==
    pc[1] \in {"done", "aborted"}
        => \A k \in DOMAIN pending[1] :
              /\ attempts[1][pending[1][k]] = 1
              /\ Status(pending[1][k]) \in {"PROCESSED", "FAILED"}

\* C8: when a stage of an article raises, the except clause leaves the
\* article FAILED with no EnrichedArticle row and the run goes on to the next
\* article.
C8_ExceptionEndsFailedAndRunGoesOn ==
    [][(pc[1] = "handler" /\ pc'[1] # "handler" /\ pc'[1] # "crashed")
          => /\ articles'[Article(1)].status = "FAILED"
             /\ EnrichedOf(enriched', Article(1)) = {}
             /\ idx'[1] = idx[1] + 1
             /\ pc'[1] \in {"claim", "done"}]_vars

(***************************************************************************)
(* Properties of the read API, checked under SpecRead                      *)
(***************************************************************************)
Processed(rows) == {r \in rows : r.status = "PROCESSED"}
ProcessedIds(rows) == {r.id : r \in Processed(rows)}

\* the three tables without everything that belongs to a non-PROCESSED article
VisibleArticles == Processed(Rows(articles))
VisibleContents == {c \in Rows(contents) : c.article_id \in ProcessedIds(Rows(articles))}
VisibleEnriched == {e \in Rows(enriched) : e.article_id \in ProcessedIds(Rows(articles))}

\* every item of a list response is a PROCESSED article of the store
OnlyProcessedItems(r) ==
    \A k \in DOMAIN r.items : \E row \in VisibleArticles : r.items[k] = Simple(row)

\* C9: in every store state the list endpoints return only PROCESSED
\* articles, the detail endpoint returns an article's data exactly when the
\* article exists and is PROCESSED and answers 404 otherwise, and every read
\* gives the same result on the store with all non-PROCESSED articles removed.
C9_OnlyProcessedVisible ==
    /\ resp.op \in {"today", "category"} => OnlyProcessedItems(resp.r)
    /\ resp.op = "category" =>
          \A k \in DOMAIN resp.r.items : resp.r.items[k].category = resp.arg[1]
    /\ resp.op = "detail" =>
          /\ resp.r.code = 200 <=> resp.arg[1] \in ProcessedIds(Rows(articles))
          /\ resp.r.code # 200 => resp.r = NotFound
          /\ resp.r.code = 200 =>
                /\ OnlyProcessedItems(resp.r)
                /\ resp.r.items[1].id = resp.arg[1]
    /\ \A skip \in Skips, limit \in Limits :
          /\ get_today_news(Rows(articles), skip, limit)
                = get_today_news(VisibleArticles, skip, limit)
          /\ \A category \in Categories :
                get_news_by_category(Rows(articles), category, skip, limit)
                    = get_news_by_category(VisibleArticles, category, skip, limit)
    /\ \A article_id \in DetailIds :
          get_article_detail(Rows(articles), Rows(contents), Rows(enriched), article_id)
              = get_article_detail(VisibleArticles, VisibleContents, VisibleEnriched,
                                   article_id)

\* the list shows the one PROCESSED article while a FAILED and a PENDING one
\* are stored
C9_Witness ==
    /\ resp.op = "today" /\ resp.arg = <<0, 20>>
    /\ Len(resp.r.items) = 1
    /\ \E a, b \in ArticleIds : Status(a) = "FAILED" /\ Status(b) = "PENDING"

(***************************************************************************)
(* Properties of the statistics window, checked under SpecStats            *)
(***************************************************************************)
IsStatsCall(c) ==
    c.op = "get_contextual_statistics_for_article" /\ "end_date" \in DOMAIN c

\* months counted from year 0
MonthIndex(d) == d[1] * 12 + (d[2] - 1)

\* the lookback the specification gives for a frequency, in months
LookbackMonths(frequency) ==
    IF frequency = "D" THEN 3
    ELSE IF frequency = "M" THEN 24
    ELSE IF frequency = "Q" THEN 60
    ELSE 12

\* start is end moved back by n calendar months, the day kept or, where the
\* month is shorter, its last day
MonthsBefore(start, end, n) ==
    /\ MonthIndex(end) - MonthIndex(start) = n
    /\ start[2] \in 1..12
    /\ start[3] = Min(end[3], DaysInMonth(start[1], start[2]))

ExampleStart(frequency) ==
    IF frequency = "D" THEN <<2025, 3, 15>>
    ELSE IF frequency = "M" THEN <<2023, 6, 15>>
    ELSE IF frequency = "Q" THEN <<2020, 6, 15>>
    ELSE <<2024, 6, 15>>

\* C10: for every reference date d and frequency f the window ends at d and
\* starts at d minus 3 months (D), 24 months (M), 5 years (Q) or 1 year (any
\* other or absent frequency); 2025-06-15 gives 2025-03-15, 2023-06-15,
\* 2020-06-15 and 2024-06-15; the start is never after the end; the returned
\* observations are those of the indicator inside the window.
C10_WindowCorrectness ==
    IsStatsCall(call) =>
        /\ Len(call.ret) = Len(window)
        /\ \A k \in DOMAIN window :
            LET w == window[k]
            IN  /\ w.end_date = call.end_date
                /\ MonthsBefore(w.start_date, w.end_date, LookbackMonths(w.frequency))
                /\ w.end_date = Date1 => w.start_date = ExampleStart(w.frequency)
                /\ DateLE(w.start_date, w.end_date)
                /\ call.ret[k].indicator_id = w.indicator_id
                /\ {<<o.date, o.value>> : o \in
                        {o \in Observations :
                            /\ o.indicator_id = w.indicator_id
                            /\ DateLE(w.start_date, o.date)
                            /\ DateLE(o.date, w.end_date)}}
                     = {<<call.ret[k].observations[i].date,
                          call.ret[k].observations[i].value>> :
                            i \in DOMAIN call.ret[k].observations}

\* a daily window from 2025-05-31 that starts on the last day of February
C10_Witness ==
    /\ IsStatsCall(call) /\ call.end_date = <<2025, 5, 31>>
    /\ Len(window) = 1 /\ window[1].frequency = "D"
    /\ window[1].start_date = <<2025, 2, 28>>

(***************************************************************************)
(* Properties of the image filter, checked under SpecFilter                *)
(***************************************************************************)
IsFilterCall(c) == c.op = "_is_valid_content_image"

\* the places where a WIDTHxHEIGHT pattern starts: a run of digits, an x and
\* a digit
SizePatterns(s) == {i \in SizeMatches(s) : i = 1 \/ ~IsDigit(s[i - 1])}

HasSmallSizePattern(image_url) ==
    \E i \in SizePatterns(Lower(image_url)) :
        \/ SizeOf(Lower(image_url), i)[1] < MinImageSide
        \/ SizeOf(Lower(image_url), i)[2] < MinImageSide

\* C12: the filter returns false exactly when the url is empty, contains an
\* advertising substring, contains a small-size token, lacks a recognized
\* image extension at the end of its path, contains any WIDTHxHEIGHT pattern
\* with a dimension under 150, or contains an ad domain fragment; the banner
\* url is rejected and the photo url is accepted.
C12_RejectsExactly ==
    IsFilterCall(call) =>
        /\ ~call.ret <=>
              \/ call.image_url = <<>>
              \/ HasAdKeyword(call.image_url)
              \/ HasSizeFilter(call.image_url)
              \/ ~has_valid_extension(call.image_url)
              \/ HasSmallSizePattern(call.image_url)
              \/ HasAdDomain(call.image_url)
        /\ call.image_url = BannerUrl => ~call.ret
        /\ call.image_url = PhotoUrl => call.ret

(***************************************************************************)
(* Properties of the crawl function, checked under SpecCrawl               *)
(***************************************************************************)
IsCrawlCall(c) == c.op = "crawl_article_with_newspaper3k" /\ "page" \in DOMAIN c

NoDuplicates(seq) == \A i, j \in DOMAIN seq : seq[i] = seq[j] => i = j

RECURSIVE IsSubsequence(_, _)
\* a is b with some elements left out
IsSubsequence(a, b) ==
    IF a = <<>> THEN TRUE
    ELSE IF b = <<>> THEN FALSE
    ELSE IF Head(a) = Head(b) THEN IsSubsequence(Tail(a), Tail(b))
    ELSE IsSubsequence(a, Tail(b))

MainImageValid(page) == page.top_image # <<>> /\ _is_valid_content_image(page.top_image)

\* the returned images after the main image
AuxiliaryPart(page, imgs) == IF MainImageValid(page) THEN Tail(imgs) ELSE imgs

\* at most five images, a valid main image first, then at most four
\* auxiliary images that pass the filter, in the order of the page's list
ImageCap(page, imgs) ==
    /\ Len(imgs) <= MaxExtraImages + 1
    /\ MainImageValid(page) => (imgs # <<>> /\ imgs[1] = page.top_image)
    /\ Len(AuxiliaryPart(page, imgs)) <= MaxExtraImages
    /\ \A k \in DOMAIN AuxiliaryPart(page, imgs) :
          _is_valid_content_image(AuxiliaryPart(page, imgs)[k])
    /\ IsSubsequence(AuxiliaryPart(page, imgs), page.images)

CreateReturns ==
    \/ call' # call
    \/ \E p \in Instances : creating[p] # NoCreate /\ creating'[p] = NoCreate

\* C13: a create_article call whose url is already stored returns None, raises
\* nothing, whatever its other fields and also when two instances race on the
\* url, and leaves every row unchanged.
C13_DuplicateIsSilentNoOp ==
    [][(CreateReturns /\ IsCreateCall(call') /\ FindByUrl(articles, call'.url) # {})
          => (call'.ret = "None" /\ UNCHANGED storeVars)]_vars

(***************************************************************************)
(* Properties of the statistics lookup's result, checked under SpecStats   *)
(***************************************************************************)
HasMetadata(indicator_id) == \E m \in indicators : m.indicator_id = indicator_id

\* the observations the store holds for an indicator, as date and value
OwnObservations(indicator_id) ==
    {[date |-> o.date, value |-> o.value] :
        o \in {o \in Observations : o.indicator_id = indicator_id}}

\* C15: the lookup does not fail on an id without Indicator metadata: such an
\* id is skipped, the result has one entry for each requested id that has
\* metadata, in request order, each with that indicator's own metadata and
\* observations, and an empty id list gives an empty result.
C15_MissingIndicatorSkipped ==
    IsStatsCall(call) =>
        /\ call.indicator_ids = <<>> => call.ret = <<>>
        /\ [k \in DOMAIN call.ret |-> call.ret[k].indicator_id]
              = SelectSeq(call.indicator_ids, HasMetadata)
        /\ \A k \in DOMAIN call.ret :
              /\ \E m \in indicators :
                    /\ m.indicator_id = call.ret[k].indicator_id
                    /\ m.name = call.ret[k].name
                    /\ m.unit = call.ret[k].unit
                    /\ m.frequency = call.ret[k].frequency
              /\ \A i \in DOMAIN call.ret[k].observations :
                    call.ret[k].observations[i] \in OwnObservations(call.ret[k].indicator_id)
              /\ \A i, j \in DOMAIN call.ret[k].observations :
                    i < j => DateLE(call.ret[k].observations[i].date,
                                    call.ret[k].observations[j].date)

\* a request for an unknown id and KOSPI gives the one entry of KOSPI with
\* observations
C15_Witness ==
    /\ IsStatsCall(call)
    /\ call.indicator_ids = <<"GHOST", "KOSPI">>
    /\ Len(call.ret) = 1 /\ call.ret[1].indicator_id = "KOSPI"
    /\ Len(call.ret[1].observations) = 2

(***************************************************************************)
(* Properties of the Enricher, checked under SpecEnricher                  *)
(***************************************************************************)
IsAnalyzeCall(c) == c.op = "analyze_article_with_llm" /\ "llm" \in DOMAIN c

\* C16: with indicators to offer, malformed (non-JSON) output gives None, an
\* upstream connectivity or service error gives None, and any other
\* unexpected error during the call is re-raised to the caller (the result
\* is then neither a dict nor None).
C16_FailureClassesKeptApart ==
    (IsAnalyzeCall(call) /\ get_available_indicators_for_llm(call.inds) # {}) =>
        /\ call.llm.kind = "JSONDecodeError" => call.ret = LLMNone
        /\ call.llm.kind \in {"APIConnectionError", "APIStatusError"} => call.ret = LLMNone
        /\ call.llm.kind = "Exception" => call.ret.kind \notin {"dict", "none"}

(***************************************************************************)
(* Properties of stage 1 and stage 2 of a run, checked under Spec          *)
(***************************************************************************)
\* this step of stage 1 ends with the crawl: the candidate did not get as far
\* as create_article
CrawlEndsCandidate ==
    pc[1] = "ingest" /\ call'.op = "crawl_article_with_newspaper3k"

\* C17: when the fetch or parse of a candidate's page raises, or its title or
\* body is empty, or its body is shorter than 200 characters, the crawl
\* returns the absent result in the shape of a success, and stage 1 skips that
\* candidate and goes on with the next one.
C17_CrawlFailureSkipsCandidate ==
    [][CrawlEndsCandidate
          => /\ call'.ret = "skip"
             /\ pc'[1] = "ingest"
             /\ candidates'[1] = candidates[1] - 1
             /\ UNCHANGED storeVars]_vars

\* this step is the call of save_enriched_data_and_cleanup for Article(1)
SaveStep == pc[1] = "save" /\ call'.op = "save_enriched_data_and_cleanup"

\* the articles other than a, and the fields of a other than status and
\* category, are the same in both tables
SameBut(arts1, arts2, a) ==
    /\ Len(arts1) = Len(arts2)
    /\ \A i \in DOMAIN arts1 :
          IF i = a
          THEN [arts1[i] EXCEPT !.status = "-", !.category = "-"]
                   = [arts2[i] EXCEPT !.status = "-", !.category = "-"]
          ELSE arts1[i] = arts2[i]

\* C18: the enrichment write and the flip to PROCESSED are one transaction.
\* A save either commits the EnrichedArticle row, the category and the
\* PROCESSED status together, or it fails, the exception reaches the caller's
\* except clauses and nothing of the three is committed; and no step at all
\* commits a row without the flip or the flip without a row.
C18_EnrichmentWriteAtomic ==
    [][/\ SaveStep =>
            LET a == Article(1)
            IN  \/ /\ call'.ret = "ok"
                   /\ enriched' = Append(enriched, NewEnriched(a, analysis[1], stats[1]))
                   /\ articles'[a].status = "PROCESSED"
                   /\ articles'[a].category = analysis[1].cat
                   /\ SameBut(articles, articles', a)
                \/ /\ call'.ret = "DatabaseError"
                   /\ UNCHANGED storeVars
                   /\ pc'[1] = "handler" /\ exc'[1] = "DatabaseError"
       /\ \A a \in ArticleIds :
            (EnrichedRows(enriched', a) # EnrichedRows(enriched, a))
                <=> (Status(a) # "PROCESSED" /\ articles'[a].status = "PROCESSED")
       /\ \A a \in ArticleIds :
            articles'[a].category # articles[a].category
                => articles'[a].status = "PROCESSED" /\ Status(a) # "PROCESSED"]_vars

\* a save has just failed: its article is still PROCESSING without a row and
\* with its old category, the exception is at the except clauses, and an
\* earlier save of the same run committed row, category and status together
C18_Witness ==
    /\ call.op = "save_enriched_data_and_cleanup" /\ call.ret = "DatabaseError"
    /\ pc[1] = "handler" /\ exc[1] = "DatabaseError"
    /\ Status(Article(1)) = "PROCESSING" /\ NumEnriched(Article(1)) = 0
    /\ articles[Article(1)].category = NoValue
    /\ \E b \in ArticleIds :
          /\ outcome[1][b] = "ok" /\ Status(b) = "PROCESSED" /\ NumEnriched(b) = 1
          /\ \A r \in EnrichedRows(enriched, b) : articles[b].category = r.category

\* the articles of the work list of the run
Selected == {pending[1][k] : k \in DOMAIN pending[1]}

\* the run is between the PROCESSING write of its current article and the end
\* of that article's iteration
Working(a) == pc[1] \in {"analyze", "stats", "save", "handler"} /\ Article(1) = a

\* C19: the work list of a run is exactly the set of articles that are PENDING
\* or FAILED when the selection query runs; the run attempts only articles of
\* that list, each while it still has the status it was selected with, and a
\* run that reaches the end of its loop has attempted each of them once and no
\* other article; an article that is PROCESSING or PROCESSED and is not the
\* one the run is working on is not modified by any step, so an article left
\* PROCESSING by a killed run stays PROCESSING through every later run.
C19_WorkSelection ==
    [][/\ (call'.op = "get_pending_articles" /\ call'.ret = "ok")
            => /\ {pending'[1][k] : k \in DOMAIN pending'[1]}
                      = {a \in ArticleIds : Status(a) \in {"PENDING", "FAILED"}}
               /\ Len(pending'[1])
                      = Cardinality({a \in ArticleIds : Status(a) \in {"PENDING", "FAILED"}})
               /\ UNCHANGED storeVars
       /\ \A a \in ArticleIds :
            attempts'[1][a] > attempts[1][a]
                => /\ a \in Selected
                   /\ Status(a) \in {"PENDING", "FAILED"}
                   /\ attempts[1][a] = 0
       /\ pc'[1] = "done"
            => \A a \in ArticleIds :
                  attempts'[1][a] = IF a \in {pending'[1][k] : k \in DOMAIN pending'[1]}
                                    THEN 1 ELSE 0
       /\ \A a \in ArticleIds :
            (Status(a) \in {"PROCESSING", "PROCESSED"} /\ ~Working(a))
                => /\ articles'[a] = articles[a]
                   /\ EnrichedRows(enriched', a) = EnrichedRows(enriched, a)
                   /\ attempts'[1][a] <= attempts[1][a]]_vars

\* a later run has reached the end of its loop: it attempted and PROCESSED
\* one article of its work list and never selected or attempted the article
\* that an earlier run left PROCESSING
C19_Witness ==
    /\ pc[1] = "done"
    /\ \E a, b \in ArticleIds :
          /\ Status(a) = "PROCESSING" /\ attempts[1][a] = 0 /\ a \notin Selected
          /\ Status(b) = "PROCESSED" /\ attempts[1][b] = 1 /\ b \in Selected

(***************************************************************************)
(* Retry, checked under SpecLive                                           *)
(***************************************************************************)
\* article a is stored and PROCESSED
IsProcessed(a) == a \in ArticleIds /\ Status(a) = "PROCESSED"

\* a run has reached the end of its loop and every stage of every article of
\* its work list succeeded: search, crawl, language model and storage all
\* answered
RunSucceeded ==
    /\ pc[1] = "done"
    /\ \A k \in DOMAIN pending[1] : outcome[1][pending[1][k]] = "ok"

\* C20: an article that is FAILED when a run selects its work is on that
\* run's list; when its stages succeed in that run it ends PROCESSED with
\* exactly one EnrichedArticle row; and when the external services eventually
\* succeed (again and again a run goes through with every stage succeeding),
\* every ingested article is eventually PROCESSED.
C20_RetryUntilProcessed ==
    /\ [][/\ (call'.op = "get_pending_articles" /\ call'.ret = "ok")
               => \A a \in ArticleIds :
                     Status(a) = "FAILED" => \E k \in DOMAIN pending'[1] : pending'[1][k] = a
          /\ (SaveStep /\ call'.ret = "ok")
               => /\ articles'[Article(1)].status = "PROCESSED"
                  /\ Cardinality(EnrichedOf(enriched', Article(1))) = 1]_vars
    /\ ([]<>RunSucceeded) => \A a \in 1..MaxArticles : (a \in ArticleIds) ~> IsProcessed(a)

(***************************************************************************)
(* Further properties of a run, checked under Spec (one instance)          *)
(***************************************************************************)
\* the articles this run has written PROCESSING and not yet moved on
InFlight == {a \in ArticleIds : attempts[1][a] > 0 /\ Status(a) = "PROCESSING"}

\* C21: at every moment at most one article that the run moved to PROCESSING
\* has not been moved on to PROCESSED or FAILED, and the PROCESSING write of an
\* article happens only when every earlier article of the work list is
\* PROCESSED or FAILED.
C21_OneArticleAtATime ==
    [][/\ Cardinality(InFlight) <= 1 /\ Cardinality(InFlight') <= 1
       /\ (pc[1] = "claim" /\ call'.op = "update_article_status")
             => \A k \in 1..(idx[1] - 1) :
                   Status(pending[1][k]) \in {"PROCESSED", "FAILED"}]_vars

\* the run works on its third article: the first was PROCESSED, the second
\* FAILED, and the third is the only one in PROCESSING
C21_Witness ==
    /\ pc[1] = "analyze" /\ idx[1] = 3
    /\ Status(pending[1][1]) = "PROCESSED"
    /\ Status(pending[1][2]) = "FAILED"
    /\ InFlight = {pending[1][3]}

(***************************************************************************)
(* The observations of a window, checked under SpecStats                   *)
(***************************************************************************)
\* a number that grows with the date
DayKey(d) == (d[1] * 12 + d[2]) * 31 + d[3]

\* the stored observations of an indicator from start to end, both included
StoredInWindow(indicator_id, start, end) ==
    {[date |-> o.date, value |-> o.value] :
        o \in {o \in Observations : /\ o.indicator_id = indicator_id
                                    /\ DayKey(start) <= DayKey(o.date)
                                    /\ DayKey(o.date) <= DayKey(end)}}

\* C22: for each indicator with metadata the lookup returns exactly the stored
\* observations of that indicator dated from the window start to the reference
\* date, both bounds included, none missing, none from outside the window or
\* from another indicator, each once, in ascending order of date.
C22_ObservationsOfWindow ==
    IsStatsCall(call) =>
        \A k \in DOMAIN call.ret :
            LET obs == call.ret[k].observations
                inWindow == StoredInWindow(call.ret[k].indicator_id,
                                           window[k].start_date, call.end_date)
            IN  /\ {obs[i] : i \in DOMAIN obs} = inWindow
                /\ Len(obs) = Cardinality(inWindow)
                /\ \A i, j \in DOMAIN obs :
                      i < j => DayKey(obs[i].date) < DayKey(obs[j].date)

\* the daily window that ends on 2025-06-15: the observations dated on its
\* first and on its last day are returned in that order, the ones dated the
\* day before and the day after are not
C22_Witness ==
    /\ IsStatsCall(call) /\ call.end_date = <<2025, 6, 15>>
    /\ call.indicator_ids = <<"GHOST", "KOSPI">> /\ Len(call.ret) = 1
    /\ window[1].start_date = <<2025, 3, 15>>
    /\ call.ret[1].observations = <<[date |-> <<2025, 3, 15>>, value |-> 2],
                                    [date |-> <<2025, 6, 15>>, value |-> 3]>>

\* a language model result, or a stored row, with exactly 2 background items,
\* at most 4 keywords, a category and at most 2 related indicators
WithinContract(background, keywords, category, related) ==
    /\ background = 2
    /\ keywords <= 4
    /\ category \notin {NoValue, Missing}
    /\ Len(related) <= 2

\* C23: every EnrichedArticle row ever persisted has exactly 2 background
\* items, at most 4 keywords, a category and at most 2 related indicators,
\* whatever object the language model returned; a result outside these bounds
\* takes the article to the except clauses (FAILED) instead of the save.
C23_PersistedWithinContract ==
    [][/\ \A k \in DOMAIN enriched' :
             WithinContract(enriched'[k].background, enriched'[k].keywords,
                            enriched'[k].category, enriched'[k].related_statistics)
       /\ (pc[1] = "analyze" /\ pc'[1] \in {"stats", "save"})
             => WithinContract(analysis'[1].background, analysis'[1].keywords,
                               analysis'[1].cat, analysis'[1].rel)]_vars

(***************************************************************************)
(* The size probe of the image extraction, checked under SpecCrawl         *)
(***************************************************************************)
\* the auxiliary candidates of a page: the listed images that pass the URL
\* filter and are not the main image, in page order
AuxCandidates(page) ==
    LET main == IF MainImageValid(page) THEN <<page.top_image>> ELSE <<>>
    IN  SelectSeq(page.images, LAMBDA img : KeepsImage(img, main))

\* C24: in one extraction at most 3 probe requests are made, whatever the
\* probes answer: the probed urls are the first 3 auxiliary candidates (all of
\* them when there are fewer), and every candidate after the third is accepted
\* without a probe.
C24_ProbeOnlyFirstThree ==
    (IsCrawlCall(call) /\ call.ret.shape = 3 /\ call.ret.images.given) =>
        LET aux == AuxCandidates(call.page)
        IN  /\ Len(call.ret.probes) <= ProbedImages
            /\ call.ret.probes = SubSeq(aux, 1, Min(ProbedImages, Len(aux)))

(***************************************************************************)
(* Article and ArticleContent, checked under Spec                          *)
(***************************************************************************)
\* the stored fields of article a that ingestion wrote: the Article row
\* without status and category, and its ArticleContent rows
Ingested(arts, conts, a) ==
    [title |-> arts[a].title, url |-> arts[a].url,
     contents |-> {conts[k] : k \in ContentOf(conts, a)}]

\* C25: in every committed state each stored Article has exactly one
\* ArticleContent and every ArticleContent belongs to a stored Article; a
\* create_article call that does not return an Article leaves both tables as
\* they were; every new Article starts PENDING; and no step of a run changes
\* the title, url, body or image list of a stored article.
C25_InsertAtomicContentImmutable ==
    [][/\ \A a \in 1..Len(articles') : Cardinality(ContentOf(contents', a)) = 1
       /\ \A k \in DOMAIN contents' : contents'[k].article_id \in 1..Len(articles')
       /\ (call'.op = "create_article" /\ call'.ret # "Article")
             => UNCHANGED <<articles, contents>>
       /\ \A a \in 1..Len(articles') :
             a \notin ArticleIds => articles'[a].status = "PENDING"
       /\ \A a \in ArticleIds :
             a \in 1..Len(articles')
                /\ Ingested(articles', contents', a) = Ingested(articles, contents, a)]_vars

\* an insert has just failed with a storage error and left no row, while the
\* article of an earlier run is PROCESSED with its one content row
C25_Witness ==
    /\ call.op = "create_article" /\ call.ret = "DatabaseError"
    /\ Len(articles) = 1 /\ Len(contents) = 1
    /\ Status(1) = "PROCESSED"
    /\ contents[1].article_id = 1

\* a step of stage 1 on one search result: the crawl, or create_article
IngestStep ==
    /\ pc[1] = "ingest"
    /\ candidates[1] > 0
    /\ call'.op \in {"crawl_article_with_newspaper3k", "create_article"}

\* C28: a failure of stage 1 for one search result (the crawl fails,
\* create_article rejects the publish date, or its storage access fails) is
\* confined to that result: the step leaves the run in stage 1 with one
\* result less to go, so that the remaining results are ingested and stage 2
\* of the same run follows.
C28_IngestFailureConfined ==
    [][IngestStep => /\ pc'[1] = "ingest"
                     /\ candidates'[1] = candidates[1] - 1]_vars

\* the indicator ids of the Indicator store
StoredIds(inds) == {i.indicator_id : i \in inds}

\* positions of the related list at which the entries of the time series are
\* found, one after the other
InListOrder(entries, related) ==
    \A j1, j2 \in DOMAIN entries :
        j1 < j2 => \E i1, i2 \in DOMAIN related :
                      /\ i1 < i2
                      /\ related[i1] = entries[j1].indicator_id
                      /\ related[i2] = entries[j2].indicator_id

\* every time-series entry of the row is of a listed and stored indicator, in
\* list order; a row that lists no stored indicator has no entry
SeriesOfRelated(row, inds) ==
    /\ \A j \in DOMAIN row.statistics_data :
          /\ \E i \in DOMAIN row.related_statistics :
                row.related_statistics[i] = row.statistics_data[j].indicator_id
          /\ row.statistics_data[j].indicator_id \in StoredIds(inds)
    /\ InListOrder(row.statistics_data, row.related_statistics)
    /\ (\A i \in DOMAIN row.related_statistics :
           row.related_statistics[i] \notin StoredIds(inds))
          => row.statistics_data = <<>>

\* C29: in every persisted EnrichedArticle each time-series entry belongs to
\* an indicator id of the row's related list that is in the Indicator store,
\* and the entries follow the order of that list; the article of a result
\* that names no indicator, or unknown ids only, reaches the save step, and
\* when the save commits it is PROCESSED with an empty time-series list.
C29_SeriesFollowRelatedList ==
    [][/\ \A k \in DOMAIN enriched' : SeriesOfRelated(enriched'[k], indicators')
       /\ (call'.op = "analyze_article_with_llm" /\ call'.ret = "ok"
              /\ KnownIds(indicators, analysis'[1].rel) = <<>>)
            => pc'[1] \in {"stats", "save"}
       /\ (SaveStep /\ call'.ret = "ok"
              /\ KnownIds(indicators, analysis[1].rel) = <<>>)
            => /\ articles'[Article(1)].status = "PROCESSED"
               /\ enriched'[Len(enriched')].statistics_data = <<>>]_vars

\* article 1 was saved from a result that names an unknown id only, article 2
\* from one that lists KOSPI and CPI among an empty and an unknown id
C29_Witness ==
    /\ Len(enriched) = 2
    /\ enriched[1].related_statistics = <<"GHOST">>
    /\ enriched[1].statistics_data = <<>>
    /\ Status(enriched[1].article_id) = "PROCESSED"
    /\ enriched[2].related_statistics = <<"KOSPI", "", "GHOST", "CPI">>
    /\ Len(enriched[2].statistics_data) = 2
    /\ enriched[2].statistics_data[1].indicator_id = "KOSPI"
    /\ enriched[2].statistics_data[2].indicator_id = "CPI"
    /\ Status(enriched[2].article_id) = "PROCESSED"

\* the Indicator store holds no indicator with a name
NoNamedIndicator == get_available_indicators_for_llm(indicators) = {}

\* the ids of a work list
Listed(order) == {order[k] : k \in DOMAIN order}

\* C30: while the Indicator store holds no named indicator, no EnrichedArticle
\* exists; the Enricher call of an article yields no usable result (absent,
\* the language model is not asked) and hands the article to the except
\* clauses; when a run ends, every article of its work list is FAILED; and
\* every run's work list holds every stored article, so the articles of one
\* run are selected again by the next. Checked under SpecLive, runs whose
\* process is not killed.
C30_NoIndicatorEveryArticleFails ==
    [][NoNamedIndicator =>
          /\ enriched' = <<>>
          /\ (pc[1] = "analyze" /\ call'.op = "analyze_article_with_llm")
                => /\ call'.ret \in {"unusable", "SQLAlchemyError"}
                   /\ pc'[1] = "handler"
          /\ (pc[1] \in InRun /\ pc'[1] \in {"done", "aborted"})
                => \A a \in Listed(pending'[1]) : articles'[a].status = "FAILED"
          /\ (call'.op = "get_pending_articles" /\ call'.ret = "ok")
                => Listed(pending'[1]) = ArticleIds]_vars

(***************************************************************************)
(* Properties of the domain-term path, checked under SpecTerms             *)
(***************************************************************************)
\* the article of the step raised for want of a valid sentence or of a term
NothingToMatch(a) == outcome[1][a] \in {"no_sentence", "no_term"}

\* C26: on the domain-term path, an article without a sentence of at least 10
\* trimmed characters, or for which the lookup returns no domain term, has
\* status FAILED and no EnrichedArticle once its pass through the loop is
\* over, and the loop goes on to the next article: the step that ends the
\* pass leaves the run in the loop (or at its regular end), and from then on
\* the article is FAILED without an enrichment row.
C26_NoSentenceOrTermFails ==
    [][/\ (pc[1] = "handler" /\ NothingToMatch(Article(1)))
            => /\ pc'[1] \in {"claim", "done"}
               /\ articles'[Article(1)].status = "FAILED"
               /\ Cardinality(EnrichedOf(enriched', Article(1))) = 0
       /\ (pc'[1] \in {"done", "aborted"})
            => \A a \in DOMAIN articles' :
                  outcome'[1][a] \in {"no_sentence", "no_term"}
                     => /\ articles'[a].status = "FAILED"
                        /\ Cardinality(EnrichedOf(enriched', a)) = 0]_vars

(***************************************************************************)
(* Properties of two concurrent instances, checked under SpecTwo           *)
(***************************************************************************)
NoRunActive == \A p \in Instances : pc[p] \notin InRun

\* C27: with two instances over the same store, every step keeps the status
\* invariant: no article has more than one EnrichedArticle, an article that is
\* PROCESSED stays PROCESSED, and once no run is active no article with an
\* EnrichedArticle row is FAILED or PROCESSING.
C27_TwoInstancesKeepInvariant ==
    [][\A a \in ArticleIds :
          /\ Cardinality(EnrichedOf(enriched', a)) <= 1
          /\ Status(a) = "PROCESSED" => articles'[a].status = "PROCESSED"
          /\ (NoRunActive' /\ Cardinality(EnrichedOf(enriched', a)) > 0)
                => articles'[a].status \notin {"FAILED", "PROCESSING"}]_vars

====
